---- MODULE Spec2Model ----
(***************************************************************************)
(* A model of the mkv-manager core: track classification, subtitle         *)
(* de-duplication, subtitle extraction/conversion, the mux command built   *)
(* by filter_and_remux, the batch entry points and the subtitle            *)
(* converters.                                                             *)
(***************************************************************************)
EXTENDS Integers, Sequences, FiniteSets, TLC

VARIABLES
    \* ---- filter_and_remux, one input file (specification Spec) ----
    pc,              \* stage of filter_and_remux
    prefs,           \* the language preferences of the run
    series,          \* what extract_series_info returned for the file name
    tracks,          \* the list returned by get_track_info
    cmd,             \* the mkvmerge command, a sequence of options
    change_log,      \* the change descriptions collected for the run log
    video_tracks,    \* the ids of the video tracks
    audio_tracks,    \* the ids of the audio tracks that are kept
    subtitle_tracks, \* the subtitle candidates collected by the track loop
    deduplicated,    \* deduplicate_subtitles(subtitle_tracks)
    psub,            \* the five results of process_subtitles_systematically
    files,           \* subtitle files present in the output folder
    run_log,         \* the blocks appended to mkv_process_log.txt
    stages,          \* the stages the file went through, in order
    \* ---- deduplicate_subtitles alone (specification SpecDedup) ----
    dIn, dOut, dpc,
    \* ---- the batch loops (specification SpecBatch) ----
    entry, running, bpc, idx, attempted, status_log,
    \* ---- the subtitle converters (specification SpecConv) ----
    cIn, cOut, cpc,
    \* ---- run_mkvmerge and its two reader threads (specification SpecMerge) ----
    process,         \* the mkvmerge process: lines still to write, exit state
    pipes,           \* the lines written on stdout and stderr and not yet read
    readers,         \* the position of each reader thread in read_output
    calls,           \* the invocations of progress_callback, in order
    mpc,             \* the position of the caller in run_mkvmerge
    \* ---- the web front end and its request handlers (specification SpecWeb) ----
    processing_status, \* the module-level dictionary: is_running and log
    requests,        \* the HTTP requests: route, position in the handler, response
    threads          \* the batch threads started by the handlers

vars == << pc, prefs, series, tracks, cmd, change_log, video_tracks,
           audio_tracks, subtitle_tracks, deduplicated, psub, files, run_log, stages,
           dIn, dOut, dpc,
           entry, running, bpc, idx, attempted, status_log,
           cIn, cOut, cpc,
           process, pipes, readers, calls, mpc,
           processing_status, requests, threads >>

mergeVars == << process, pipes, readers, calls, mpc >>
webVars == << processing_status, requests, threads >>

remuxVars == << pc, prefs, series, tracks, cmd, change_log, video_tracks,
                audio_tracks, subtitle_tracks, deduplicated, psub, files, run_log, stages >>
dedupVars == << dIn, dOut, dpc >>
batchVars == << entry, running, bpc, idx, attempted, status_log >>
convVars  == << cIn, cOut, cpc >>

-----------------------------------------------------------------------------
(* Bounds of the model *)

MaxTracks == 2      \* tracks in the file given to filter_and_remux
MaxCands == 3       \* candidates given to deduplicate_subtitles alone

Langs == {"eng", "jpn"}

\* Track names are sequences of words; "[" and "]" are the bracket characters.
NoName == << >>
NameA == << "[", "A", "]" >>
NameB == << "[", "B", "]" >>
NameSigns == << "Signs" >>
NameEmptyTag == << "[", "]", "x" >>

-----------------------------------------------------------------------------
(* Helpers on sequences *)

Range(s) == { s[i] : i \in 1..Len(s) }

SeqsUpTo(S, n) == UNION { [1..k -> S] : k \in 0..n }

RECURSIVE Distinct(_)
\* the distinct elements of s, in order of first appearance (a dict's key order)
Distinct(s) ==
    IF s = << >> THEN << >>
    ELSE LET h == Head(s)
             rest == Distinct(Tail(s))
         IN << h >> \o SelectSeq(rest, LAMBDA x : x # h)

RECURSIVE Flatten(_)
Flatten(ss) == IF ss = << >> THEN << >> ELSE Head(ss) \o Flatten(Tail(ss))

-----------------------------------------------------------------------------
(* track_analyzer.py *)

ToLower(word) == IF word = "Signs" THEN "signs" ELSE word

forced_indicators == {"signs", "songs", "forced"}

is_forced_subtitle_by_name(track_name) ==
    /\ track_name # << >>
    /\ \E i \in 1..Len(track_name) : ToLower(track_name[i]) \in forced_indicators

\* one entry of get_track_info's result, from one track of mkvmerge -J
TrackOf(raw) ==
    [ id |-> raw.id,
      type |-> raw.type,
      lang |-> raw.language,
      forced |-> raw.forced_track \/ is_forced_subtitle_by_name(raw.track_name),
      hearing_impaired |-> raw.hearing_impaired_flag,
      track_name |-> raw.track_name ]

\* get_track_info: the tool's output parsed, or [] when the tool failed
get_track_info(ok, raws) ==
    IF ok THEN [ i \in 1..Len(raws) |-> TrackOf(raws[i]) ] ELSE << >>

-----------------------------------------------------------------------------
(* subtitle_processor.py: deduplicate_subtitles *)

\* re.search(SOURCE_PATTERN, track_name): the first "[" that is followed by at
\* least one non-"]" word and then "]"; << >> stands for None.
extract_source(track_name) ==
    LET starts == { i \in 1..Len(track_name) :
                      /\ track_name[i] = "["
                      /\ \E j \in (i + 2)..Len(track_name) :
                            /\ track_name[j] = "]"
                            /\ \A k \in (i + 1)..(j - 1) : track_name[k] # "]" }
    IN IF starts = {} THEN << >>
       ELSE LET i == CHOOSE x \in starts : \A y \in starts : x <= y
                j == CHOOSE x \in (i + 2)..Len(track_name) :
                        /\ track_name[x] = "]"
                        /\ \A k \in (i + 1)..(x - 1) : track_name[k] # "]"
            IN SubSeq(track_name, i + 1, j - 1)

SourceScore(bucket) ==
    IF bucket.normal # << >> /\ bucket.forced # << >> THEN 100
    ELSE IF bucket.normal # << >> THEN 50
    ELSE IF bucket.forced # << >> THEN 25
    ELSE 0

RECURSIVE BestSource(_, _, _, _)
\* the loop over sources.items(): a strictly higher score replaces the best
BestSource(srcs, bucketOf, best, best_score) ==
    IF srcs = << >> THEN best
    ELSE LET s == Head(srcs)
             score == SourceScore(bucketOf[s])
         IN IF score > best_score
            THEN BestSource(Tail(srcs), bucketOf, s, score)
            ELSE BestSource(Tail(srcs), bucketOf, best, best_score)

\* the body of the loop over lang_groups.items() after the test of the
\* group's length, for one group
DedupGroupBody(group) ==
      LET normal_tracks == SelectSeq(group, LAMBDA t : ~t.forced)
          forced_tracks == SelectSeq(group, LAMBDA t : t.forced)
          all_tracks == normal_tracks \o forced_tracks
          srcOf(t) == extract_source(t.track_name)
          sourced == SelectSeq(all_tracks, LAMBDA t : srcOf(t) # << >>)
          srcs == Distinct([ i \in 1..Len(sourced) |-> srcOf(sourced[i]) ])
          bucketOf == [ s \in Range(srcs) |->
                         [ normal |-> SelectSeq(all_tracks,
                               LAMBDA t : srcOf(t) = s /\ ~t.forced),
                           forced |-> SelectSeq(all_tracks,
                               LAMBDA t : srcOf(t) = s /\ t.forced) ] ]
          unsourced_normal == SelectSeq(all_tracks,
                                 LAMBDA t : srcOf(t) = << >> /\ ~t.forced)
          unsourced_forced == SelectSeq(all_tracks,
                                 LAMBDA t : srcOf(t) = << >> /\ t.forced)
          best_source == BestSource(srcs, bucketOf, << >>, -1)
          has_best == best_source # << >>
      IN (IF has_best
          THEN bucketOf[best_source].normal \o bucketOf[best_source].forced
          ELSE << >>)
         \o (IF unsourced_normal # << >>
                /\ ~(has_best /\ bucketOf[best_source].normal # << >>)
             THEN unsourced_normal ELSE << >>)
         \o unsourced_forced

\* subtitle_processor.py: a group of at most one track is kept as it is
\* (extend, then continue)
DedupGroup(group) ==
    IF Len(group) <= 1 THEN group ELSE DedupGroupBody(group)

deduplicate_subtitles(subs) ==
    IF subs = << >> THEN subs
    ELSE LET langs == Distinct([ i \in 1..Len(subs) |-> subs[i].lang ])
             groupOf(l) == SelectSeq(subs, LAMBDA t : t.lang = l)
         IN Flatten([ i \in 1..Len(langs) |-> DedupGroup(groupOf(langs[i])) ])

\* mkv_cleaner.py: the same loop body, but after extending the result with a
\* group of at most one track the body goes on (there is no continue)
LegacyDedupGroup(group) ==
    (IF Len(group) <= 1 THEN group ELSE << >>) \o DedupGroupBody(group)

legacy_deduplicate_subtitles(subs) ==
    IF subs = << >> THEN subs
    ELSE LET langs == Distinct([ i \in 1..Len(subs) |-> subs[i].lang ])
             groupOf(l) == SelectSeq(subs, LAMBDA t : t.lang = l)
         IN Flatten([ i \in 1..Len(langs) |->
                        LegacyDedupGroup(groupOf(langs[i])) ])

-----------------------------------------------------------------------------
(* Values of the mux command, the change log and the subtitle paths *)

\* A file name: its dot-separated parts (each a sequence of words) and its
\* extension.  {base_name}.{lang}{suffix}.{ext} has the parts of base_name,
\* then the language, then "forced" and "sdh" as they apply.
Path(parts, ext) == [ parts |-> parts, ext |-> ext ]
NoPath == Path(<< >>, "")

\* One option of the mkvmerge command line.
Opt(o, tid, val) ==
    [ opt |-> o, tid |-> tid, val |-> val, ids |-> << >>, name |-> << >>,
      path |-> NoPath ]
NameOpt(o, tid, name) ==
    [ opt |-> o, tid |-> tid, val |-> "", ids |-> << >>, name |-> name,
      path |-> NoPath ]
ListOpt(o, ids) ==
    [ opt |-> o, tid |-> -1, val |-> "", ids |-> ids, name |-> << >>,
      path |-> NoPath ]
FileArg(path) ==
    [ opt |-> "file", tid |-> -1, val |-> "", ids |-> << >>, name |-> << >>,
      path |-> path ]
PathOpt(o, path) ==
    [ opt |-> o, tid |-> -1, val |-> "", ids |-> << >>, name |-> << >>,
      path |-> path ]

YesNo(b) == IF b THEN "yes" ELSE "no"

Change(what, tid) == [ what |-> what, tid |-> tid ]

\* LANG_TITLES.get(lang, lang)
LangTitle(lang) ==
    IF lang = "eng" THEN "English"
    ELSE IF lang = "jpn" THEN "Japanese"
    ELSE lang

\* the display title of a subtitle: the language name and its suffix
SubtitleTitle(lang, forced, hearing_impaired) ==
    IF forced /\ hearing_impaired THEN << LangTitle(lang), "(Forced SDH)" >>
    ELSE IF forced THEN << LangTitle(lang), "(Forced)" >>
    ELSE IF hearing_impaired THEN << LangTitle(lang), "(SDH)" >>
    ELSE << LangTitle(lang) >>

-----------------------------------------------------------------------------
(* mkv_processor.py: the track loop of filter_and_remux *)

\* output_name without ".mkv" (it is title_for_mkv too), as dot-separated
\* parts: from extract_series_info's result, or base_name + "_cleaned"
OutputBase(s) ==
    IF s.series_title # "" /\ s.season_episode_tag # ""
    THEN IF s.episode_title # ""
         THEN << << s.series_title, "-", s.season_episode_tag, "-",
                    s.episode_title >> >>
         ELSE << << s.series_title, "-", s.season_episode_tag, "-",
                    "Episode #" >> >>
    ELSE [ i \in 1..Len(s.base_name) |->
             IF i = Len(s.base_name) THEN s.base_name[i] \o << "_cleaned" >>
             ELSE s.base_name[i] ]

\* is the subtitle track collected as a candidate
IsCollected(t, p) ==
    LET is_forced_original == t.forced /\ t.lang = p.original_subtitle_lang
        is_allowed_lang == t.lang \in p.allowed_sub_langs
        is_forced_for_audio == t.forced /\ t.lang \in p.allowed_audio_langs
    IN is_allowed_lang \/ is_forced_original \/ is_forced_for_audio

\* is the audio track kept
IsAudioKept(t, p) == t.lang \in p.allowed_audio_langs

\* one iteration of "for t in tracks"
TrackStep(t, acc, p) ==
    IF t.type = "video" THEN
        [ acc EXCEPT
            !.video_tracks = Append(@, t.id),
            !.cmd = @ \o << Opt("--language", t.id, "und"),
                            NameOpt("--track-name", t.id, << >>) >>,
            !.change_log = Append(@, Change("Keep video track", t.id)) ]
    ELSE IF t.type = "audio" THEN
        IF IsAudioKept(t, p) THEN
            LET is_def == (t.lang = p.default_audio_lang)
                is_original == (t.lang = p.original_audio_lang)
            IN [ acc EXCEPT
                   !.audio_tracks = Append(@, t.id),
                   !.cmd = @ \o << Opt("--default-track", t.id, YesNo(is_def)),
                                   Opt("--original-flag", t.id, YesNo(is_original)),
                                   NameOpt("--track-name", t.id,
                                           << LangTitle(t.lang) >>) >>,
                   !.change_log = @ \o
                       << IF is_def THEN Change("Set audio as default", t.id)
                          ELSE Change("Keep audio", t.id) >>
                       \o (IF is_original
                           THEN << Change("Set audio as original", t.id) >>
                           ELSE << >>) ]
        ELSE [ acc EXCEPT
                 !.change_log = Append(@, Change("Removed audio track", t.id)) ]
    ELSE IF t.type = "subtitles" THEN
        IF IsCollected(t, p) THEN
            [ acc EXCEPT
                !.subtitle_tracks = Append(@,
                    [ id |-> t.id, lang |-> t.lang, forced |-> t.forced,
                      hearing_impaired |-> t.hearing_impaired,
                      track_name |-> t.track_name ]) ]
        ELSE [ acc EXCEPT
                 !.change_log = Append(@, Change("Removed subtitle track", t.id)) ]
    ELSE acc

RECURSIVE TrackLoop(_, _, _)
TrackLoop(ts, acc, p) ==
    IF ts = << >> THEN acc
    ELSE TrackLoop(Tail(ts), TrackStep(Head(ts), acc, p), p)

-----------------------------------------------------------------------------
(* subtitle_processor.py: process_subtitles_systematically *)

\* the language filter at the head of process_subtitles_systematically
IsAllowedSubtitle(sub, allowed_audio_langs, allowed_sub_langs) ==
    IF sub.forced
    THEN sub.lang \in allowed_audio_langs \/ sub.lang \in allowed_sub_langs
    ELSE sub.lang \in allowed_sub_langs

AllowedSubtitles(collected, allowed_audio_langs, allowed_sub_langs) ==
    SelectSeq(collected,
              LAMBDA sub : IsAllowedSubtitle(sub, allowed_audio_langs,
                                             allowed_sub_langs))

NameSuffix(forced, hearing_impaired) ==
    (IF forced THEN << << "forced" >> >> ELSE << >>)
    \o (IF hearing_impaired THEN << << "sdh" >> >> ELSE << >>)

TempExtracted(sub, base_name) ==
    Path(base_name \o << << sub.lang >> >>
           \o NameSuffix(sub.forced, sub.hearing_impaired), "temp")
FinalSrt(sub, base_name) ==
    Path(base_name \o << << sub.lang >> >>
           \o NameSuffix(sub.forced, sub.hearing_impaired), "srt")

\* What the extractor and the converter do for one track:
\*   run_raises        run_hidden raises (mkvextract cannot be started)
\*   extract_failed    mkvextract exits non-zero and writes nothing
\*   srt               extracted, is_srt_format, renamed to the final path
\*   converted         extracted, convert_subtitle_to_srt wrote the final file
\*   convert_failed    extracted, convert_subtitle_to_srt returned False
Outcomes ==
    {"run_raises", "extract_failed", "srt", "converted", "convert_failed"}

FailedOutcomes == {"run_raises", "extract_failed", "convert_failed"}

\* one iteration of "for sub in allowed_subtitles"
ConvertStep(sub, outcome, acc, base_name, extract_subtitles, save_extracted_subtitles) ==
    LET temp_extracted == TempExtracted(sub, base_name)
        final_srt == FinalSrt(sub, base_name)
        result == [ original_id |-> sub.id, lang |-> sub.lang,
                    forced |-> sub.forced,
                    hearing_impaired |-> sub.hearing_impaired,
                    is_srt |-> FALSE, file_path |-> NoPath,
                    conversion_success |-> FALSE ]
        ok == [ result EXCEPT !.is_srt = TRUE, !.file_path = final_srt,
                              !.conversion_success = TRUE ]
        failed == result
        handed == Append(acc.extracted,
                    [ id |-> sub.id, temp |-> temp_extracted,
                      final |-> final_srt,
                      failed |-> outcome \in FailedOutcomes ])
        kept(a) == IF save_extracted_subtitles
                   THEN [ a EXCEPT !.saved_subtitle_files = Append(@, final_srt) ]
                   ELSE [ a EXCEPT !.temp_files = Append(@, final_srt) ]
    IN IF ~extract_subtitles
       THEN [ acc EXCEPT !.results =
                Append(@, [ result EXCEPT !.conversion_success = TRUE ]) ]
       ELSE IF outcome = "run_raises" \/ outcome = "extract_failed"
       THEN [ acc EXCEPT !.results = Append(@, failed), !.extracted = handed ]
       ELSE IF outcome = "srt" \/ outcome = "converted"
       THEN kept([ acc EXCEPT !.results = Append(@, ok), !.extracted = handed,
                     !.files = (@ \ { temp_extracted }) \cup { final_srt } ])
       ELSE \* convert_failed: the extracted file is removed again
            [ acc EXCEPT !.results = Append(@, failed), !.extracted = handed,
                         !.files = @ \ { temp_extracted } ]

RECURSIVE ConvertLoop(_, _, _, _, _, _)
ConvertLoop(subs, outs, acc, base_name, extract_subtitles, save_extracted_subtitles) ==
    IF subs = << >> THEN acc
    ELSE ConvertLoop(Tail(subs), Tail(outs),
                     ConvertStep(Head(subs), Head(outs), acc, base_name,
                                 extract_subtitles, save_extracted_subtitles),
                     base_name, extract_subtitles, save_extracted_subtitles)

prefer_srt(group) ==
    IF group = << >> THEN << >>
    ELSE LET srt_results == SelectSeq(group, LAMBDA r : r.is_srt)
         IN IF srt_results # << >> THEN << srt_results[1] >> ELSE << group[1] >>

\* the loop over lang_groups.items() that builds final_subtitles
FinalOfGroup(results) ==
    IF Len(results) = 1 THEN results
    ELSE prefer_srt(SelectSeq(results, LAMBDA r : ~r.forced))
         \o prefer_srt(SelectSeq(results, LAMBDA r : r.forced))

FinalSubtitles(results) ==
    LET langs == Distinct([ i \in 1..Len(results) |-> results[i].lang ])
        groupOf(l) == SelectSeq(results, LAMBDA r : r.lang = l)
    IN Flatten([ i \in 1..Len(langs) |-> FinalOfGroup(groupOf(langs[i])) ])

\* a variant that marks every subtitle of the default language, forced or not
IsDefaultSub_AlsoForced(r, default_subtitle_lang) ==
    r.lang = default_subtitle_lang

IsDefaultSub(r, default_subtitle_lang) ==
    r.lang = default_subtitle_lang /\ ~r.forced

\* the option list that accompanies a converted subtitle file
ExternalMetadata(r, default_subtitle_lang, original_subtitle_lang) ==
    << Opt("--language", 0, r.lang),
       NameOpt("--track-name", 0,
               SubtitleTitle(r.lang, r.forced, r.hearing_impaired)),
       Opt("--default-track", 0, YesNo(IsDefaultSub(r, default_subtitle_lang))),
       Opt("--original-flag", 0, YesNo(r.lang = original_subtitle_lang)) >>
    \o (IF r.forced THEN << Opt("--forced-track", 0, "yes") >> ELSE << >>)
    \o (IF r.hearing_impaired
        THEN << Opt("--hearing-impaired-flag", 0, "yes") >> ELSE << >>)

\* the entry of original_track_metadata of a track kept from the source
OriginalMetadata(r, default_subtitle_lang, original_subtitle_lang) ==
    [ language |-> r.lang,
      title |-> SubtitleTitle(r.lang, r.forced, r.hearing_impaired),
      default |-> IsDefaultSub(r, default_subtitle_lang),
      forced |-> r.forced,
      hearing_impaired |-> r.hearing_impaired,
      original |-> (r.lang = original_subtitle_lang) ]

\* a variant that keeps every selected result as an original track, converted
\* or not
KeptAsOriginal_All(final_subtitles) ==
    final_subtitles

\* a variant that keeps only the results whose processing succeeded
KeptAsOriginal_OnlySuccessful(final_subtitles) ==
    SelectSeq(final_subtitles,
              LAMBDA r : r.file_path = NoPath /\ r.conversion_success)

\* the selected results that stay in the source file as original tracks
KeptAsOriginal(final_subtitles) ==
    SelectSeq(final_subtitles, LAMBDA r : r.file_path = NoPath)

process_subtitles_systematically(base_name, collected, p, save_extracted_subtitles, outs, files0) ==
    LET allowed == AllowedSubtitles(collected, p.allowed_audio_langs,
                                    p.allowed_sub_langs)
        conv == ConvertLoop(allowed, outs,
                    [ results |-> << >>, temp_files |-> << >>,
                      saved_subtitle_files |-> << >>, files |-> files0,
                      extracted |-> << >> ],
                    base_name, p.extract_subtitles, save_extracted_subtitles)
        final_subtitles == FinalSubtitles(conv.results)
        converted == SelectSeq(final_subtitles, LAMBDA r : r.file_path # NoPath)
        originals == KeptAsOriginal(final_subtitles)
    IN [ processed_subtitles |->
           [ i \in 1..Len(converted) |->
               [ path |-> converted[i].file_path,
                 metadata |-> ExternalMetadata(converted[i],
                                p.default_subtitle_lang,
                                p.original_subtitle_lang) ] ],
         temp_files |-> conv.temp_files,
         saved_subtitle_files |-> conv.saved_subtitle_files,
         original_subtitle_track_ids |->
           [ i \in 1..Len(originals) |-> originals[i].original_id ],
         original_track_metadata |->
           [ id \in { originals[i].original_id : i \in 1..Len(originals) } |->
               LET r == CHOOSE x \in Range(originals) : x.original_id = id
               IN OriginalMetadata(r, p.default_subtitle_lang,
                                   p.original_subtitle_lang) ],
         files |-> conv.files,
         extracted |-> conv.extracted,
         final_subtitles |-> final_subtitles ]

-----------------------------------------------------------------------------
(* mkv_processor.py: the mux command, the mux run and the end of the file *)

SourceFile(base_name) == Path(base_name, "mkv")

\* the options of one subtitle track kept from the source
OriginalTrackOpts(track_id, metadata) ==
    << Opt("--language", track_id, metadata.language),
       NameOpt("--track-name", track_id, metadata.title),
       Opt("--default-track", track_id, YesNo(metadata.default)),
       Opt("--original-flag", track_id, YesNo(metadata.original)) >>
    \o (IF metadata.forced
        THEN << Opt("--forced-track", track_id, "yes") >> ELSE << >>)
    \o (IF metadata.hearing_impaired
        THEN << Opt("--hearing-impaired-flag", track_id, "yes") >> ELSE << >>)

\* the audio selection appended to the command
AudioSelection(kept_audio) ==
    IF kept_audio # << >> THEN << ListOpt("--audio-tracks", kept_audio) >>
    ELSE << >>

\* the subtitle selection appended to the command
SubtitleSelection(ps) ==
    LET ids == ps.original_subtitle_track_ids
    IN IF ids # << >>
       THEN << ListOpt("--subtitle-tracks", ids) >>
            \o Flatten([ i \in 1..Len(ids) |->
                   IF ids[i] \in DOMAIN ps.original_track_metadata
                   THEN OriginalTrackOpts(ids[i], ps.original_track_metadata[ids[i]])
                   ELSE << >> ])
       ELSE << Opt("--no-subtitles", -1, "") >>

\* the rest of the command, once the subtitles are processed
BuildCommand(acc, ps, base_name) ==
    acc.cmd
    \o (IF acc.video_tracks # << >>
        THEN << ListOpt("--video-tracks", acc.video_tracks) >> ELSE << >>)
    \o AudioSelection(acc.audio_tracks)
    \o SubtitleSelection(ps)
    \o << FileArg(SourceFile(base_name)) >>
    \o Flatten([ i \in 1..Len(ps.processed_subtitles) |->
           ps.processed_subtitles[i].metadata
           \o << FileArg(ps.processed_subtitles[i].path) >> ])

\* the name under which a saved subtitle file is persisted beside the output
FinalSubtitleName(saved_file, output_base) ==
    IF Len(saved_file.parts) >= 2
    THEN Path(output_base \o Tail(saved_file.parts), "srt")
    ELSE Path(output_base, "srt")

RECURSIVE PersistSaved(_, _, _)
\* the loop over saved_subtitle_files: copy to the final name, remove the source
PersistSaved(saved, output_base, fs) ==
    IF saved = << >> THEN fs
    ELSE LET saved_file == Head(saved)
             final == FinalSubtitleName(saved_file, output_base)
         IN PersistSaved(Tail(saved), output_base,
              IF saved_file \in fs /\ final # saved_file
              THEN (fs \cup { final }) \ { saved_file }
              ELSE fs)

-----------------------------------------------------------------------------
(* The inputs of one run of filter_and_remux *)

PrefsSet ==
    [ allowed_audio_langs : SUBSET Langs,
      allowed_sub_langs : SUBSET Langs,
      default_audio_lang : {"eng"},
      default_subtitle_lang : {"eng"},
      original_audio_lang : {"jpn"},
      original_subtitle_lang : {"jpn"},
      extract_subtitles : BOOLEAN ]

\* a file name and what extract_series_info returns for it
FileNames ==
    { [ base_name |-> << << "Show" >>, << "S01E02" >>, << "Pilot" >> >>,
        series_title |-> "Show", season_episode_tag |-> "S01E02",
        episode_title |-> "Pilot" ] }

\* the tracks mkvmerge -J may report, without their ids; a subtitle track is
\* plain, forced or for the hearing impaired
RawTracks ==
    { [ type |-> "video", language |-> "und", forced_track |-> FALSE,
        hearing_impaired_flag |-> FALSE, track_name |-> NoName ] }
    \cup [ type : {"audio"}, language : Langs, forced_track : {FALSE},
           hearing_impaired_flag : {FALSE}, track_name : {NoName} ]
    \cup { t \in [ type : {"subtitles"}, language : Langs,
                   forced_track : BOOLEAN, hearing_impaired_flag : BOOLEAN,
                   track_name : {NoName} ] :
             ~(t.forced_track /\ t.hearing_impaired_flag) }

WithIds(raws) ==
    [ i \in 1..Len(raws) |->
        [ id |-> i - 1, type |-> raws[i].type, language |-> raws[i].language,
          forced_track |-> raws[i].forced_track,
          hearing_impaired_flag |-> raws[i].hearing_impaired_flag,
          track_name |-> raws[i].track_name ] ]

NoAcc ==
    [ cmd |-> << >>, change_log |-> << >>, video_tracks |-> << >>,
      audio_tracks |-> << >>, subtitle_tracks |-> << >> ]

NoPsub ==
    [ processed_subtitles |-> << >>, temp_files |-> << >>,
      saved_subtitle_files |-> << >>, original_subtitle_track_ids |-> << >>,
      original_track_metadata |-> << >>, files |-> {}, extracted |-> << >>,
      final_subtitles |-> << >> ]

NoFile ==
    [ base_name |-> << >>, series_title |-> "", season_episode_tag |-> "",
      episode_title |-> "" ]

-----------------------------------------------------------------------------
(* filter_and_remux for one input file, stage by stage *)

RemuxInit ==
    /\ pc = "Start"
    /\ prefs \in PrefsSet
    /\ series = NoFile
    /\ tracks = << >>
    /\ cmd = << >>
    /\ change_log = << >>
    /\ video_tracks = << >>
    /\ audio_tracks = << >>
    /\ subtitle_tracks = << >>
    /\ deduplicated = << >>
    /\ psub = NoPsub
    /\ files = {}
    /\ run_log = << >>
    /\ stages = << "Start" >>

\* the output folder is resolved, then the title from the file name
ResolveTitle ==
    /\ pc = "Start"
    /\ \E f \in FileNames : series' = f
    /\ pc' = "TitleResolved"
    /\ stages' = Append(stages, "TitleResolved")
    /\ UNCHANGED << prefs, tracks, cmd, change_log, video_tracks, audio_tracks,
                    subtitle_tracks, deduplicated, psub, files, run_log >>
    /\ UNCHANGED << dedupVars, batchVars, convVars, mergeVars, webVars >>

\* neither the requested nor the default output folder can be created:
\* os.makedirs raises out of filter_and_remux
OutputFolderError ==
    /\ pc = "Start"
    /\ pc' = "Failed"
    /\ stages' = Append(stages, "Failed")
    /\ UNCHANGED << prefs, series, tracks, cmd, change_log, video_tracks,
                    audio_tracks, subtitle_tracks, deduplicated, psub, files,
                    run_log >>
    /\ UNCHANGED << dedupVars, batchVars, convVars, mergeVars, webVars >>

\* get_track_info, the head of the command and the loop over the tracks
ClassifyTracks ==
    /\ pc = "TitleResolved"
    /\ \E ok \in BOOLEAN :
       \E raws \in (IF ok THEN SeqsUpTo(RawTracks, MaxTracks) ELSE { << >> }) :
          LET ts == get_track_info(ok, WithIds(raws))
              head == [ NoAcc EXCEPT
                          !.cmd = << PathOpt("-o", Path(OutputBase(series), "mkv")),
                                     PathOpt("--title", Path(OutputBase(series), "")) >>,
                          !.change_log =
                              << Change("Renamed to", -1), Change("MKV title", -1) >>
                              \o (IF series.episode_title # ""
                                  THEN << Change("Episode title extracted", -1) >>
                                  ELSE << >>) ]
              acc == TrackLoop(ts, head, prefs)
          IN /\ tracks' = ts
             /\ cmd' = acc.cmd
             /\ change_log' = acc.change_log
             /\ video_tracks' = acc.video_tracks
             /\ audio_tracks' = acc.audio_tracks
             /\ subtitle_tracks' = acc.subtitle_tracks
    /\ pc' = "TracksClassified"
    /\ stages' = Append(stages, "TracksClassified")
    /\ UNCHANGED << prefs, series, deduplicated, psub, files, run_log >>
    /\ UNCHANGED << dedupVars, batchVars, convVars, mergeVars, webVars >>

Deduplicate ==
    /\ pc = "TracksClassified"
    /\ deduplicated' = deduplicate_subtitles(subtitle_tracks)
    /\ pc' = "SubtitlesDeduplicated"
    /\ stages' = Append(stages, "SubtitlesDeduplicated")
    /\ UNCHANGED << prefs, series, tracks, cmd, change_log, video_tracks,
                    audio_tracks, subtitle_tracks, psub, files, run_log >>
    /\ UNCHANGED << dedupVars, batchVars, convVars, mergeVars, webVars >>

ProcessSubtitles ==
    /\ pc = "SubtitlesDeduplicated"
    /\ LET n == Len(AllowedSubtitles(deduplicated, prefs.allowed_audio_langs,
                                     prefs.allowed_sub_langs))
       IN \E save_extracted_subtitles \in
                (IF prefs.extract_subtitles THEN BOOLEAN ELSE { FALSE }) :
          \E outs \in [ 1..n -> (IF prefs.extract_subtitles THEN Outcomes
                                 ELSE { "srt" }) ] :
             /\ psub' = process_subtitles_systematically(series.base_name,
                            deduplicated, prefs, save_extracted_subtitles,
                            outs, files)
             /\ files' = psub'.files
    /\ pc' = "SubtitlesConverted"
    /\ stages' = Append(stages, "SubtitlesConverted")
    /\ UNCHANGED << prefs, series, tracks, cmd, change_log, video_tracks,
                    audio_tracks, subtitle_tracks, deduplicated, run_log >>
    /\ UNCHANGED << dedupVars, batchVars, convVars, mergeVars, webVars >>

BuildMuxCommand ==
    /\ pc = "SubtitlesConverted"
    /\ cmd' = BuildCommand([ cmd |-> cmd, video_tracks |-> video_tracks,
                             audio_tracks |-> audio_tracks ],
                           psub, series.base_name)
    /\ change_log' =
          IF psub.processed_subtitles # << >>
          THEN Append(change_log, Change("Processed subtitle(s)", -1))
          ELSE change_log
    /\ pc' = "MuxInstructionBuilt"
    /\ stages' = Append(stages, "MuxInstructionBuilt")
    /\ UNCHANGED << prefs, series, tracks, video_tracks, audio_tracks,
                    subtitle_tracks, deduplicated, psub, files, run_log >>
    /\ UNCHANGED << dedupVars, batchVars, convVars, mergeVars, webVars >>

\* run_mkvmerge / run_hidden(check=True): a muxer that cannot be started or
\* exits non-zero raises out of filter_and_remux
RunMux ==
    /\ pc = "MuxInstructionBuilt"
    /\ \E muxed \in BOOLEAN :
          /\ pc' = IF muxed THEN "Muxed" ELSE "Failed"
          /\ stages' = Append(stages, IF muxed THEN "Muxed" ELSE "Failed")
    /\ UNCHANGED << prefs, series, tracks, cmd, change_log, video_tracks,
                    audio_tracks, subtitle_tracks, deduplicated, psub, files,
                    run_log >>
    /\ UNCHANGED << dedupVars, batchVars, convVars, mergeVars, webVars >>

\* saved subtitles are persisted, temporary files removed, the log appended
FinishFile ==
    /\ pc = "Muxed"
    /\ files' = PersistSaved(psub.saved_subtitle_files, OutputBase(series), files)
                   \ Range(psub.temp_files)
    /\ run_log' = Append(run_log,
                         [ file |-> series.base_name, changes |-> change_log ])
    /\ pc' = "LoggedAndCleaned"
    /\ stages' = Append(stages, "LoggedAndCleaned")
    /\ UNCHANGED << prefs, series, tracks, cmd, change_log, video_tracks,
                    audio_tracks, subtitle_tracks, deduplicated, psub >>
    /\ UNCHANGED << dedupVars, batchVars, convVars, mergeVars, webVars >>

-----------------------------------------------------------------------------
(* Idle values of the variables a specification does not use *)

RemuxIdle ==
    /\ pc = "Idle"
    /\ prefs = << >>
    /\ series = NoFile
    /\ tracks = << >>
    /\ cmd = << >>
    /\ change_log = << >>
    /\ video_tracks = << >>
    /\ audio_tracks = << >>
    /\ subtitle_tracks = << >>
    /\ deduplicated = << >>
    /\ psub = NoPsub
    /\ files = {}
    /\ run_log = << >>
    /\ stages = << >>

DedupIdle == dIn = << >> /\ dOut = << >> /\ dpc = "Idle"

BatchIdle ==
    /\ entry = "none"
    /\ running = FALSE
    /\ bpc = "Idle"
    /\ idx = 0
    /\ attempted = << >>
    /\ status_log = << >>

ConvIdle == cIn = << >> /\ cOut = << >> /\ cpc = "Idle"

-----------------------------------------------------------------------------
(* Specification Spec: filter_and_remux on one input file *)

MergeIdle ==
    /\ process = << >>
    /\ pipes = << >>
    /\ readers = << >>
    /\ calls = << >>
    /\ mpc = "Idle"

WebIdle ==
    /\ processing_status = << >>
    /\ requests = << >>
    /\ threads = << >>

Init == RemuxInit /\ DedupIdle /\ BatchIdle /\ ConvIdle /\ MergeIdle /\ WebIdle

Next ==
    \/ ResolveTitle
    \/ OutputFolderError
    \/ ClassifyTracks
    \/ Deduplicate
    \/ ProcessSubtitles
    \/ BuildMuxCommand
    \/ RunMux
    \/ FinishFile

Spec == Init /\ [][Next]_vars

-----------------------------------------------------------------------------
(* What a mux command selects.  mkvmerge copies every track of a kind unless *)
(* the command names a selection of that kind or excludes the kind.          *)

HasOpt(c, o) == \E i \in 1..Len(c) : c[i].opt = o

Selected(c, o) ==
    UNION { Range(c[i].ids) : i \in { k \in 1..Len(c) : c[k].opt = o } }

MuxCopiesAudio(c, tid) ==
    IF HasOpt(c, "--audio-tracks") THEN tid \in Selected(c, "--audio-tracks")
    ELSE ~HasOpt(c, "--no-audio")

MuxCopiesSubtitle(c, tid) ==
    IF HasOpt(c, "--subtitle-tracks") THEN tid \in Selected(c, "--subtitle-tracks")
    ELSE ~HasOpt(c, "--no-subtitles")

\* the subtitle files appended to the command as external inputs
ExternalFiles(c) ==
    { c[i].path : i \in { k \in 1..Len(c) : c[k].opt = "file" /\ c[k].path.ext = "srt" } }

\* an option applies to the input file that follows it: the options of the
\* source file's tracks are those before the source file argument
SourceFileAt(c) ==
    CHOOSE i \in 1..Len(c) : c[i].opt = "file" /\ c[i].path.ext = "mkv"

HasTrackOpt(c, o, tid, val) ==
    \E i \in 1..(SourceFileAt(c) - 1) :
        c[i].opt = o /\ c[i].tid = tid /\ c[i].val = val

CommandBuilt == pc \in {"MuxInstructionBuilt", "Muxed", "LoggedAndCleaned"}

SubtitlesOf(ts) == { t \in Range(ts) : t.type = "subtitles" }

-----------------------------------------------------------------------------
(* C2: a subtitle track that is the only subtitle of its language is in the   *)
(* final mux instruction (as a retained original track id or as a converted   *)
(* external file) if and only if its language is in allowedSubLangs, or it is *)
(* forced and its language is in allowedAudioLangs, or it is forced and its   *)
(* language is originalSubtitleLang.                                          *)

SoleOfLanguage(t) ==
    \A u \in SubtitlesOf(tracks) : u.lang = t.lang => u.id = t.id

InMuxInstruction(t) ==
    \/ t.id \in Selected(cmd, "--subtitle-tracks")
    \/ FinalSrt(t, series.base_name) \in ExternalFiles(cmd)

CollectRule(t) ==
    \/ t.lang \in prefs.allowed_sub_langs
    \/ t.forced /\ t.lang \in prefs.allowed_audio_langs
    \/ t.forced /\ t.lang = prefs.original_subtitle_lang

C2_SoleSubtitleKeptIffRule ==
    CommandBuilt =>
        \A t \in SubtitlesOf(tracks) :
            SoleOfLanguage(t) => (InMuxInstruction(t) <=> CollectRule(t))

-----------------------------------------------------------------------------
(* C3: the mux command keeps an audio track if and only if its language is in *)
(* allowedAudioLangs, also when no audio track is allowed.                    *)

C3_AudioKeptIffAllowed ==
    CommandBuilt =>
        \A t \in Range(tracks) :
            t.type = "audio" =>
                (MuxCopiesAudio(cmd, t.id) <=> t.lang \in prefs.allowed_audio_langs)

-----------------------------------------------------------------------------
(* C5: with an empty track list from the metadata provider the file is still  *)
(* muxed and the mux instruction carries no track selection and no track      *)
(* exclusion of any kind.                                                     *)

TrackFilterOpts ==
    {"--video-tracks", "--audio-tracks", "--subtitle-tracks", "--no-video",
     "--no-audio", "--no-subtitles"}

C5_NoTracksNoFiltering ==
    (CommandBuilt /\ tracks = << >>) =>
        \A i \in 1..Len(cmd) : cmd[i].opt \notin TrackFilterOpts

-----------------------------------------------------------------------------
(* C6: when extraction or conversion fails for a subtitle track that is the   *)
(* selected candidate of its (language, forced) slot, the file is still muxed *)
(* and the track is kept from the source as an original track: its id is in   *)
(* the subtitle-track selection with its computed flags, and no external file *)
(* is added for it.                                                           *)

\* the tracks handed to extraction whose extraction or conversion failed and
\* which are the selected candidates of their slots
FailedSelected ==
    { e \in Range(psub.extracted) :
        /\ e.failed
        /\ \E r \in Range(psub.final_subtitles) : r.original_id = e.id }

TrackWithId(tid) == CHOOSE t \in Range(tracks) : t.id = tid

KeptWithFlags(tid) ==
    LET t == TrackWithId(tid)
    IN /\ MuxCopiesSubtitle(cmd, tid)
       /\ tid \in Selected(cmd, "--subtitle-tracks")
       /\ HasTrackOpt(cmd, "--language", tid, t.lang)
       /\ HasTrackOpt(cmd, "--default-track", tid,
             YesNo(t.lang = prefs.default_subtitle_lang /\ ~t.forced))
       /\ HasTrackOpt(cmd, "--original-flag", tid,
             YesNo(t.lang = prefs.original_subtitle_lang))
       /\ t.forced <=> HasTrackOpt(cmd, "--forced-track", tid, "yes")
       /\ t.hearing_impaired
            <=> HasTrackOpt(cmd, "--hearing-impaired-flag", tid, "yes")

C6_FailedTrackKeptAsOriginal ==
    /\ pc = "SubtitlesConverted" => ENABLED BuildMuxCommand
    /\ CommandBuilt =>
          \A e \in FailedSelected :
              /\ KeptWithFlags(e.id)
              /\ e.final \notin ExternalFiles(cmd)

C6_Witness ==
    /\ pc = "MuxInstructionBuilt"
    /\ FailedSelected # {}
    /\ ExternalFiles(cmd) # {}

-----------------------------------------------------------------------------
(* C8: filter_and_remux goes through its stages in the fixed order; the       *)
(* run-log block of the file is appended exactly once and only after the      *)
(* muxer exited with code 0; an error in any stage leads to a Failed outcome  *)
(* that is recorded in the log.                                               *)

StageOrder ==
    << "Start", "TitleResolved", "TracksClassified", "SubtitlesDeduplicated",
       "SubtitlesConverted", "MuxInstructionBuilt", "Muxed",
       "LoggedAndCleaned" >>

IsPrefixOrFailed(st) ==
    \/ /\ Len(st) <= Len(StageOrder)
       /\ st = SubSeq(StageOrder, 1, Len(st))
    \/ /\ Len(st) >= 2
       /\ st[Len(st)] = "Failed"
       /\ Len(st) - 1 <= Len(StageOrder)
       /\ SubSeq(st, 1, Len(st) - 1) = SubSeq(StageOrder, 1, Len(st) - 1)

LoggedFor(f) == { i \in 1..Len(run_log) : run_log[i].file = f }

C8_StagesInOrderAndOutcomeLogged ==
    /\ IsPrefixOrFailed(stages)
    /\ Cardinality(LoggedFor(series.base_name)) <= 1
    /\ LoggedFor(series.base_name) # {} => "Muxed" \in Range(stages)
    /\ pc = "LoggedAndCleaned" => Cardinality(LoggedFor(series.base_name)) = 1
    /\ pc = "Failed" => LoggedFor(series.base_name) # {}

-----------------------------------------------------------------------------
(* C9: no two distinct subtitle tracks handed to extraction are written to    *)
(* the same temporary or final subtitle path: their (language, forced, SDH)   *)
(* name components differ.                                                    *)

C9_ExtractionPathsDistinct ==
    \A i, j \in 1..Len(psub.extracted) :
        i # j =>
            /\ psub.extracted[i].temp # psub.extracted[j].temp
            /\ psub.extracted[i].final # psub.extracted[j].final

-----------------------------------------------------------------------------
(* Specification SpecDedup: deduplicate_subtitles on every candidate list *)

DedupNames == { NoName, NameA, NameB, NameEmptyTag }

\* the candidates filter_and_remux may collect, without their ids
Candidates ==
    [ lang : Langs, forced : BOOLEAN, hearing_impaired : { FALSE },
      track_name : DedupNames ]

CandidatesWithIds(cs) ==
    [ i \in 1..Len(cs) |->
        [ id |-> i - 1, lang |-> cs[i].lang, forced |-> cs[i].forced,
          hearing_impaired |-> cs[i].hearing_impaired,
          track_name |-> cs[i].track_name ] ]

DedupInit ==
    /\ dIn \in { CandidatesWithIds(cs) : cs \in SeqsUpTo(Candidates, MaxCands) }
    /\ dOut = << >>
    /\ dpc = "in"

RunDedup ==
    /\ dpc = "in"
    /\ dOut' = deduplicate_subtitles(dIn)
    /\ dpc' = "out"
    /\ UNCHANGED dIn
    /\ UNCHANGED << remuxVars, batchVars, convVars, mergeVars, webVars >>

InitDedup == DedupInit /\ RemuxIdle /\ BatchIdle /\ ConvIdle /\ MergeIdle /\ WebIdle

NextDedup == RunDedup

SpecDedup == InitDedup /\ [][NextDedup]_vars

-----------------------------------------------------------------------------
(* C1: for every language, the output of deduplicate_subtitles contains at    *)
(* most one non-forced and at most one forced candidate of that language.     *)

OfSlot(out, lang, forced) ==
    { i \in 1..Len(out) : out[i].lang = lang /\ out[i].forced = forced }

C1_AtMostOnePerSlot ==
    dpc = "out" =>
        \A lang \in Langs : \A forced \in BOOLEAN :
            Cardinality(OfSlot(dOut, lang, forced)) <= 1

-----------------------------------------------------------------------------
(* Specification SpecBatch: the loops that call filter_and_remux for every    *)
(* file of a batch: main (CLI), the two web processing threads and the        *)
(* desktop processing thread.                                                 *)

NumFiles == 4

Entries == {"cli", "web_process", "web_dropped", "desktop"}

BatchInit ==
    /\ entry \in Entries
    /\ running = FALSE
    /\ bpc = "start"
    /\ idx = 0
    /\ attempted = << >>
    /\ status_log = << >>

\* the batch starts: the web threads raise is_running, the desktop controller
\* raises self.processing
StartBatch ==
    /\ bpc = "start"
    /\ running' = (entry # "cli")
    /\ status_log' = IF entry = "web_process" THEN << "Starting processing" >>
                      ELSE << >>
    /\ idx' = 1
    /\ bpc' = "loop"
    /\ UNCHANGED << entry, attempted >>
    /\ UNCHANGED << remuxVars, dedupVars, convVars, mergeVars, webVars >>

\* filter_and_remux(file) is called for the next file; it returns, or raises
\* (the Failed outcome of the file)
CallFilterAndRemux ==
    /\ bpc = "loop"
    /\ idx <= NumFiles
    /\ \E outcome \in {"LoggedAndCleaned", "Failed"} :
          attempted' = Append(attempted, outcome)
    /\ bpc' = "called"
    /\ UNCHANGED << entry, running, idx, status_log >>
    /\ UNCHANGED << remuxVars, dedupVars, convVars, mergeVars, webVars >>

\* main: the call is not guarded, an exception leaves the loop and main
MainAfterCall ==
    /\ bpc = "called"
    /\ entry = "cli"
    /\ IF attempted[idx] = "Failed"
       THEN bpc' = "raised" /\ idx' = idx
       ELSE bpc' = "loop" /\ idx' = idx + 1
    /\ UNCHANGED << entry, running, attempted, status_log >>
    /\ UNCHANGED << remuxVars, dedupVars, convVars, mergeVars, webVars >>

\* the web threads: try/except around the call, the error goes to the status log
WebAfterCall ==
    /\ bpc = "called"
    /\ entry \in {"web_process", "web_dropped"}
    /\ status_log' = Append(status_log,
                        IF attempted[idx] = "Failed" THEN "Error processing"
                        ELSE "Completed")
    /\ idx' = idx + 1
    /\ bpc' = "loop"
    /\ UNCHANGED << entry, running, attempted >>
    /\ UNCHANGED << remuxVars, dedupVars, convVars, mergeVars, webVars >>

\* the desktop thread: try/except around the call, the error goes to a dialog
DesktopAfterCall ==
    /\ bpc = "called"
    /\ entry = "desktop"
    /\ status_log' = IF attempted[idx] = "Failed"
                      THEN Append(status_log, "Processing Error")
                      ELSE status_log
    /\ idx' = idx + 1
    /\ bpc' = "loop"
    /\ UNCHANGED << entry, running, attempted >>
    /\ UNCHANGED << remuxVars, dedupVars, convVars, mergeVars, webVars >>

\* the loop is exhausted; the threads lower their flag in "finally"
EndBatch ==
    /\ bpc = "loop"
    /\ idx > NumFiles
    /\ running' = FALSE
    /\ status_log' = IF entry \in {"web_process", "web_dropped"}
                      THEN Append(status_log, "All files processed")
                      ELSE status_log
    /\ bpc' = "done"
    /\ UNCHANGED << entry, idx, attempted >>
    /\ UNCHANGED << remuxVars, dedupVars, convVars, mergeVars, webVars >>

InitBatch == BatchInit /\ RemuxIdle /\ DedupIdle /\ ConvIdle /\ MergeIdle /\ WebIdle

NextBatch ==
    \/ StartBatch
    \/ CallFilterAndRemux
    \/ MainAfterCall
    \/ WebAfterCall
    \/ DesktopAfterCall
    \/ EndBatch

SpecBatch == InitBatch /\ [][NextBatch]_vars

-----------------------------------------------------------------------------
(* C4: a fatal failure while processing file i aborts only file i: every      *)
(* later file of the batch is still attempted, for each batch entry point.    *)

BatchEnded == bpc \in {"done", "raised"}

C4_EveryFileAttempted ==
    BatchEnded => Len(attempted) = NumFiles

-----------------------------------------------------------------------------
(* Subtitle times.  A TTML time is written in seconds ("10s"), in             *)
(* milliseconds ("1500ms") or as a clock value ("00:01:15"); n is the number  *)
(* the text carries (for a clock value, the seconds it spells out).           *)

TtmlTimes ==
    { [fmt |-> "s", n |-> 2], [fmt |-> "s", n |-> 10],
      [fmt |-> "ms", n |-> 1500], [fmt |-> "clock", n |-> 75] }

\* the three colon-separated fields of the clock text
ClockFields(t) ==
    [h |-> t.n \div 3600, m |-> (t.n % 3600) \div 60, s |-> t.n % 60]

\* the instant a TTML time denotes, in milliseconds
TtmlMs(t) == IF t.fmt = "ms" THEN t.n ELSE t.n * 1000

\* the SRT time "HH:MM:SS,mmm" as its four fields
convert_ttml_time_to_srt(t) ==
    IF t.fmt \in {"s", "ms"}
    THEN LET ms0     == IF t.fmt = "ms" THEN t.n ELSE t.n * 1000
             hours   == ms0 \div 3600000
             ms1     == ms0 % 3600000
             minutes == ms1 \div 60000
             ms2     == ms1 % 60000
             seconds == ms2 \div 1000
             ms3     == ms2 % 1000
         IN  [h |-> hours, m |-> minutes, s |-> seconds, ms |-> ms3]
    ELSE LET parts == ClockFields(t)
         IN  [h |-> parts.h, m |-> parts.m, s |-> parts.s, ms |-> 0]

SrtMs(x) == ((x.h * 60 + x.m) * 60 + x.s) * 1000 + x.ms

-----------------------------------------------------------------------------
(* convert_ttml_to_srt_basic on a document whose paragraphs all have one of   *)
(* the three shapes; the first pattern with matches is the only one applied.  *)

Shapes == << "begin_end", "start_end", "begin_dur" >>

\* lines.sort(key=lambda x: x[0]): stable, by the zero-padded start time
InsertByStart(e, sorted) ==
    LET k == Cardinality({ i \in 1..Len(sorted) :
                             SrtMs(sorted[i].start) <= SrtMs(e.start) })
    IN  SubSeq(sorted, 1, k) \o << e >> \o SubSeq(sorted, k + 1, Len(sorted))

RECURSIVE SortByStart(_)
SortByStart(lines) ==
    IF lines = << >> THEN << >>
    ELSE InsertByStart(lines[Len(lines)],
                       SortByStart(SubSeq(lines, 1, Len(lines) - 1)))

\* one match of a pattern: both captured times go through the same conversion
MatchEntry(para) ==
    [start |-> convert_ttml_time_to_srt(para.time1),
     end   |-> convert_ttml_time_to_srt(para.time2),
     text  |-> para.text]

RECURSIVE MatchLoop(_)
MatchLoop(matches) ==
    IF matches = << >> THEN << >>
    ELSE LET rest == MatchLoop(Tail(matches))
         IN  IF Head(matches).text # ""
             THEN << MatchEntry(Head(matches)) >> \o rest
             ELSE rest

RECURSIVE PatternLoop(_, _)
PatternLoop(k, doc) ==
    IF k > Len(Shapes) THEN << >>
    ELSE LET matches == IF doc.shape = Shapes[k] THEN doc.paras ELSE << >>
         IN  IF matches # << >> THEN MatchLoop(matches)
             ELSE PatternLoop(k + 1, doc)

\* the file written from the sorted lines: "{i}", "{start} --> {end}", "{text}"
WriteSrt(lines) ==
    [i \in 1..Len(lines) |->
        [index |-> i, start |-> lines[i].start, end |-> lines[i].end,
         text |-> lines[i].text]]

convert_ttml_to_srt_basic(doc) ==
    LET lines == PatternLoop(1, doc)
    IN  IF lines = << >>
        THEN [ok |-> FALSE, entries |-> << >>, written |-> << >>]
        ELSE [ok |-> TRUE, entries |-> SortByStart(lines),
              written |-> WriteSrt(SortByStart(lines))]

-----------------------------------------------------------------------------
(* Specification SpecTtml: convert_ttml_to_srt_basic applied to well-formed   *)
(* documents (begin <= end in the two shapes that carry an end).              *)

MaxParas == 2

TtmlTexts == {"Hi", ""}

ParasOf(shape) ==
    { p \in [time1 : TtmlTimes, time2 : TtmlTimes, text : TtmlTexts] :
        shape # "begin_dur" => TtmlMs(p.time1) <= TtmlMs(p.time2) }

\* the documents of at most n paragraphs
TtmlDocs(n) ==
    UNION { { [shape |-> shape, paras |-> ps] :
                ps \in SeqsUpTo(ParasOf(shape), n) \ {<< >>} } :
            shape \in Range(Shapes) }

TtmlInit ==
    /\ cIn \in TtmlDocs(MaxParas)
    /\ cOut = << >>
    /\ cpc = "ttml_in"

RunTtml ==
    /\ cpc = "ttml_in"
    /\ cOut' = convert_ttml_to_srt_basic(cIn)
    /\ cpc' = "ttml_out"
    /\ UNCHANGED cIn
    /\ UNCHANGED << remuxVars, dedupVars, batchVars, mergeVars, webVars >>

InitTtml == TtmlInit /\ RemuxIdle /\ DedupIdle /\ BatchIdle /\ MergeIdle /\ WebIdle

NextTtml == RunTtml

SpecTtml == InitTtml /\ [][NextTtml]_vars

-----------------------------------------------------------------------------
(* C10: every entry emitted by the TTML converter has start <= end, and an    *)
(* entry made from a (begin, dur) paragraph ends at begin + dur.              *)

MadeFrom(e, p) ==
    /\ p.text = e.text
    /\ SrtMs(e.start) = TtmlMs(p.time1)
    /\ SrtMs(e.end) = IF cIn.shape = "begin_dur"
                      THEN TtmlMs(p.time1) + TtmlMs(p.time2)
                      ELSE TtmlMs(p.time2)

C10_StartNotAfterEnd ==
    cpc = "ttml_out" =>
        \A i \in 1..Len(cOut.entries) :
            /\ SrtMs(cOut.entries[i].start) <= SrtMs(cOut.entries[i].end)
            /\ \E j \in 1..Len(cIn.paras) :
                  MadeFrom(cOut.entries[i], cIn.paras[j])

-----------------------------------------------------------------------------
(* text_utils.py: break_long_subtitle_lines.  A text is a sequence of         *)
(* characters; positions returned by rfind and the break points are 0-based   *)
(* as in the code, so a break at b keeps the first b characters.              *)

Whitespace == {" ", "\n"}

RECURSIVE Strip(_)
Strip(text) ==
    IF text = << >> THEN << >>
    ELSE IF Head(text) \in Whitespace THEN Strip(Tail(text))
    ELSE IF text[Len(text)] \in Whitespace
         THEN Strip(SubSeq(text, 1, Len(text) - 1))
    ELSE text

\* text.rfind(pattern): the highest index where pattern starts, or -1
RFind(text, pattern) ==
    LET at == { i \in 0..(Len(text) - Len(pattern)) :
                  SubSeq(text, i + 1, i + Len(pattern)) = pattern }
    IN  IF at = {} THEN -1 ELSE CHOOSE i \in at : \A j \in at : j <= i

\* "en-dash" and "em-dash" stand for the characters U+2013 and U+2014
break_chars ==
    << << ".", " " >>, << "!", " " >>, << "?", " " >>, << ",", " " >>,
       << ";", " " >>, << " ", "-", " " >>, << " ", "en-dash", " " >>,
       << " ", "em-dash", " " >> >>

RECURSIVE BreakCharLoop(_, _, _)
BreakCharLoop(k, search_text, max_length) ==
    IF k > Len(break_chars) THEN -1
    ELSE LET last_pos == RFind(search_text, break_chars[k])
         IN  IF 2 * last_pos > max_length
             THEN last_pos + Len(break_chars[k])
             ELSE BreakCharLoop(k + 1, search_text, max_length)

find_best_break_point(text, max_length) ==
    IF Len(text) <= max_length THEN -1
    ELSE BreakCharLoop(1, SubSeq(text, 1, max_length), max_length)

find_word_boundary(text, max_length) ==
    IF Len(text) <= max_length THEN -1
    ELSE LET last_space == RFind(SubSeq(text, 1, max_length), << " " >>)
         IN  IF 10 * last_space > 3 * max_length THEN last_space + 1 ELSE -1

\* a variant whose hard cut takes one character more than the limit
BestBreak_OneMore(remaining_text, max_line_length) ==
    LET natural == find_best_break_point(remaining_text, max_line_length)
        boundary == find_word_boundary(remaining_text, max_line_length)
    IN  IF natural # -1 THEN natural
        ELSE IF boundary # -1 THEN boundary
        ELSE max_line_length + 1

\* the break point one iteration of the while loop settles on
BestBreak(remaining_text, max_line_length) ==
    LET natural == find_best_break_point(remaining_text, max_line_length)
        boundary == find_word_boundary(remaining_text, max_line_length)
    IN  IF natural # -1 THEN natural
        ELSE IF boundary # -1 THEN boundary
        ELSE max_line_length

RECURSIVE WrapLoop(_, _, _)
WrapLoop(remaining_text, max_line_length, broken_lines) ==
    IF Len(remaining_text) > max_line_length
    THEN LET best_break == BestBreak(remaining_text, max_line_length)
             current_line == Strip(SubSeq(remaining_text, 1, best_break))
         IN  WrapLoop(Strip(SubSeq(remaining_text, best_break + 1,
                                   Len(remaining_text))),
                      max_line_length,
                      IF current_line # << >>
                      THEN Append(broken_lines, current_line)
                      ELSE broken_lines)
    ELSE IF remaining_text # << >> THEN Append(broken_lines, remaining_text)
    ELSE broken_lines

\* text.split('\n')
RECURSIVE SplitLines(_)
SplitLines(text) ==
    LET at == { i \in 1..Len(text) : text[i] = "\n" }
    IN  IF at = {} THEN << text >>
        ELSE LET i == CHOOSE x \in at : \A y \in at : x <= y
             IN  << SubSeq(text, 1, i - 1) >>
                 \o SplitLines(SubSeq(text, i + 1, Len(text)))

\* '\n'.join(lines)
RECURSIVE JoinLines(_)
JoinLines(lines) ==
    IF lines = << >> THEN << >>
    ELSE IF Len(lines) = 1 THEN lines[1]
    ELSE lines[1] \o << "\n" >> \o JoinLines(Tail(lines))

RECURSIVE ProcessLines(_, _)
ProcessLines(lines, max_line_length) ==
    IF lines = << >> THEN << >>
    ELSE (IF Len(Head(lines)) <= max_line_length
          THEN << Head(lines) >>
          ELSE WrapLoop(Strip(Head(lines)), max_line_length, << >>))
         \o ProcessLines(Tail(lines), max_line_length)

break_long_subtitle_lines(text, max_line_length) ==
    IF text = << >> \/ Len(text) <= max_line_length THEN text
    ELSE JoinLines(ProcessLines(SplitLines(text), max_line_length))

-----------------------------------------------------------------------------
(* Specification SpecWrap: break_long_subtitle_lines on bounded texts, with   *)
(* a small max_line_length so that every kind of break happens.               *)

MaxTextLen == 8
MaxLineLength == 6

TextChars == {"a", " ", ",", "\n"}

WrapInit ==
    /\ cIn \in [text : SeqsUpTo(TextChars, MaxTextLen),
                max_line_length : {MaxLineLength}]
    /\ cOut = << >>
    /\ cpc = "wrap_in"

RunWrap ==
    /\ cpc = "wrap_in"
    /\ cOut' = break_long_subtitle_lines(cIn.text, cIn.max_line_length)
    /\ cpc' = "wrap_out"
    /\ UNCHANGED cIn
    /\ UNCHANGED << remuxVars, dedupVars, batchVars, mergeVars, webVars >>

InitWrap == WrapInit /\ RemuxIdle /\ DedupIdle /\ BatchIdle /\ MergeIdle /\ WebIdle

NextWrap == RunWrap

SpecWrap == InitWrap /\ [][NextWrap]_vars

-----------------------------------------------------------------------------
(* C12: break_long_subtitle_lines never places a line break between two       *)
(* non-space characters of one word while the text still to be wrapped        *)
(* contains a space: a hard cut happens only when that text has no space.     *)

\* the words of a text, in order
RECURSIVE Words(_)
Words(text) ==
    LET t == Strip(text)
        ws == { i \in 1..Len(t) : t[i] \in Whitespace }
    IN  IF t = << >> THEN << >>
        ELSE IF ws = {} THEN << t >>
        ELSE LET i == CHOOSE x \in ws : \A y \in ws : x <= y
             IN  << SubSeq(t, 1, i - 1) >> \o Words(SubSeq(t, i + 1, Len(t)))

\* some iteration of the while loop on this text cuts inside a word although
\* the text it is wrapping contains a space
RECURSIVE CutsWordDespiteSpace(_, _)
CutsWordDespiteSpace(remaining_text, max_line_length) ==
    /\ Len(remaining_text) > max_line_length
    /\ LET best_break == BestBreak(remaining_text, max_line_length)
       IN  \/ /\ remaining_text[best_break] \notin Whitespace
              /\ remaining_text[best_break + 1] \notin Whitespace
              /\ \E i \in 1..Len(remaining_text) : remaining_text[i] = " "
           \/ CutsWordDespiteSpace(
                  Strip(SubSeq(remaining_text, best_break + 1,
                               Len(remaining_text))), max_line_length)

C12_NoCutInsideWord ==
    cpc = "wrap_out" =>
        LET lines == SplitLines(cIn.text)
        IN  /\ \A k \in 1..Len(lines) :
                  ~CutsWordDespiteSpace(Strip(lines[k]), cIn.max_line_length)
            /\ (\A k \in 1..Len(lines) :
                    \A i \in 1..Len(Words(lines[k])) :
                        Len(Words(lines[k])[i]) <= cIn.max_line_length)
                  => Words(cOut) = Words(cIn.text)

-----------------------------------------------------------------------------
(* Numbers as they are written in a subtitle file: sequences of decimal      *)
(* digits.  IntOf is int(text); Pad is the format "{n:0<width>d}".            *)

RECURSIVE IntOf(_)
IntOf(ds) ==
    IF ds = << >> THEN 0
    ELSE 10 * IntOf(SubSeq(ds, 1, Len(ds) - 1)) + ds[Len(ds)]

RECURSIVE DigitsOf(_)
DigitsOf(n) ==
    IF n < 10 THEN << n >> ELSE Append(DigitsOf(n \div 10), n % 10)

RECURSIVE ZeroFill(_, _)
ZeroFill(ds, width) ==
    IF Len(ds) >= width THEN ds ELSE ZeroFill(<< 0 >> \o ds, width)

Pad(n, width) == ZeroFill(DigitsOf(n), width)

-----------------------------------------------------------------------------
(* convert_ass_time_to_srt.  An ASS time text is its colon-separated fields   *)
(* h, m, s and the digits cs after the dot (<< >> when there is no dot).  A   *)
(* text without three number fields makes int() raise: the zero time.         *)

\* without the factor between centiseconds and milliseconds
CentisecondsToMs_Unscaled(centiseconds) == centiseconds

CentisecondsToMs(centiseconds) == centiseconds * 10

ZeroSrtTime ==
    [hh |-> << 0, 0 >>, mm |-> << 0, 0 >>, ss |-> << 0, 0 >>,
     mmm |-> << 0, 0, 0 >>]

convert_ass_time_to_srt(ass_time) ==
    IF ass_time.h = << >> \/ ass_time.m = << >> \/ ass_time.s = << >>
    THEN ZeroSrtTime
    ELSE LET hours        == IntOf(ass_time.h)
             minutes      == IntOf(ass_time.m)
             seconds      == IntOf(ass_time.s)
             milliseconds == IF ass_time.cs # << >>
                             THEN CentisecondsToMs(IntOf(ass_time.cs))
                             ELSE 0
         IN  [hh |-> Pad(hours, 2), mm |-> Pad(minutes, 2),
              ss |-> Pad(seconds, 2), mmm |-> Pad(milliseconds, 3)]

\* the texts given to the conversion: H:MM:SS.CC and texts that are not
AssTimeTexts ==
    [h  : { << 0 >>, << 1 >>, << 9 >> },
     m  : { << 0, 0 >>, << 0, 5 >>, << 5, 9 >> },
     s  : { << 0, 0 >>, << 0, 7 >>, << 5, 9 >> },
     cs : { << >>, << 5 >>, << 0, 0 >>, << 4, 5 >>, << 9, 9 >>, << 5, 0, 0 >> }]
    \cup { [h |-> << >>, m |-> << >>, s |-> << >>, cs |-> << >>] }

\* the text has the form H:MM:SS.CC
IsAssTimeFormat(t) ==
    Len(t.h) = 1 /\ Len(t.m) = 2 /\ Len(t.s) = 2 /\ Len(t.cs) = 2

-----------------------------------------------------------------------------
(* Specification SpecAssTime: convert_ass_time_to_srt applied to one text *)

AssTimeInit ==
    /\ cIn \in AssTimeTexts
    /\ cOut = << >>
    /\ cpc = "asstime_in"

RunAssTime ==
    /\ cpc = "asstime_in"
    /\ cOut' = convert_ass_time_to_srt(cIn)
    /\ cpc' = "asstime_out"
    /\ UNCHANGED cIn
    /\ UNCHANGED << remuxVars, dedupVars, batchVars, mergeVars, webVars >>

InitAssTime == AssTimeInit /\ RemuxIdle /\ DedupIdle /\ BatchIdle /\ MergeIdle /\ WebIdle

NextAssTime == RunAssTime

SpecAssTime == InitAssTime /\ [][NextAssTime]_vars

-----------------------------------------------------------------------------
(* C18: convert_ass_time_to_srt maps an ASS time H:MM:SS.CC to HH:MM:SS,mmm   *)
(* with mmm = CC x 10 and the same hours, minutes and seconds; the            *)
(* millisecond field is exactly three digits, in 000..999.                    *)

C18_AssTimeToSrt ==
    (cpc = "asstime_out" /\ IsAssTimeFormat(cIn)) =>
        /\ Len(cOut.hh) = 2 /\ IntOf(cOut.hh) = IntOf(cIn.h)
        /\ Len(cOut.mm) = 2 /\ IntOf(cOut.mm) = IntOf(cIn.m)
        /\ Len(cOut.ss) = 2 /\ IntOf(cOut.ss) = IntOf(cIn.s)
        /\ Len(cOut.mmm) = 3
        /\ IntOf(cOut.mmm) = IntOf(cIn.cs) * 10
        /\ IntOf(cOut.mmm) \in 0..999

C18_Witness ==
    /\ cpc = "asstime_out"
    /\ cIn = [h |-> << 0 >>, m |-> << 0, 5 >>, s |-> << 5, 9 >>, cs |-> << 4, 5 >>]
    /\ cOut = [hh |-> << 0, 0 >>, mm |-> << 0, 5 >>, ss |-> << 5, 9 >>,
               mmm |-> << 4, 5, 0 >>]

-----------------------------------------------------------------------------
(* convert_ass_to_srt_basic.  A line of the file is a Dialogue line with its  *)
(* ten comma-separated parts ("dialogue"), a Dialogue line with fewer parts   *)
(* ("short") or any other line ("other"); texts are sequences of characters.  *)

HasSub(text, pattern) == RFind(text, pattern) # -1

vector_patterns ==
    { << " ", "m", " " >>, << " ", "b", " " >>, << " ", "l", " " >>,
      << " ", "c", " " >>, << " ", "z", " " >>, << "M", " " >>,
      << "L", " " >>, << "C", " " >>, << "Z", " " >> }

\* re.sub(r'\{[^}]*\}', '', text)
RECURSIVE RemoveAssTags(_)
RemoveAssTags(text) ==
    LET opens == { i \in 1..Len(text) :
                     /\ text[i] = "{"
                     /\ \E j \in (i + 1)..Len(text) : text[j] = "}" }
    IN  IF opens = {} THEN text
        ELSE LET i == CHOOSE x \in opens : \A y \in opens : x <= y
                 closes == { j \in (i + 1)..Len(text) : text[j] = "}" }
                 j == CHOOSE x \in closes : \A y \in closes : x <= y
             IN  SubSeq(text, 1, i - 1)
                 \o RemoveAssTags(SubSeq(text, j + 1, Len(text)))

\* text.replace('\\N', '\n').replace('\\n', '\n')
RECURSIVE ReplaceLineBreaks(_)
ReplaceLineBreaks(text) ==
    IF Len(text) < 2 THEN text
    ELSE IF text[1] = "\\" /\ text[2] \in {"N", "n"}
         THEN << "\n" >> \o ReplaceLineBreaks(SubSeq(text, 3, Len(text)))
    ELSE << text[1] >> \o ReplaceLineBreaks(Tail(text))

\* text.replace('\n', '').replace(' ', '')
Squeeze(text) == SelectSeq(text, LAMBDA c : c \notin Whitespace)

\* the time fields of a line that is not a Dialogue line with ten parts
ZeroAssTime == [h |-> << >>, m |-> << >>, s |-> << >>, cs |-> << >>]

\* the (start, end, text) a Dialogue line contributes, or << >> when skipped
DialogueEntry(line) ==
    LET start_srt == convert_ass_time_to_srt(line.start)
        end_srt == convert_ass_time_to_srt(line.end)
        cleaned == Strip(ReplaceLineBreaks(RemoveAssTags(Strip(line.text))))
        text == break_long_subtitle_lines(cleaned, 45)
    IN  IF line.kind # "dialogue" THEN << >>
        ELSE IF \E p \in vector_patterns : HasSub(Strip(line.text), p)
        THEN << >>
        ELSE IF cleaned = << >> THEN << >>
        ELSE IF Cardinality(Range(Squeeze(text))) <= 1 THEN << >>
        ELSE IF Len(Squeeze(text)) <= 2 THEN << >>
        ELSE << [start |-> start_srt, end |-> end_srt, text |-> text] >>

\* the loop over the lines; seen_entries holds exactly the entries of lines
RECURSIVE DialogueLoop(_, _)
DialogueLoop(content, lines) ==
    IF content = << >> THEN lines
    ELSE LET entry_key == DialogueEntry(Head(content))
         IN  DialogueLoop(Tail(content),
                 IF entry_key # << >> /\ entry_key[1] \notin Range(lines)
                 THEN lines \o entry_key
                 ELSE lines)

\* the characters of "HH:MM:SS,mmm" in their order of comparison: a digit by
\* its value, ":" above every digit, "," below every digit
SrtText(t) == t.hh \o << 10 >> \o t.mm \o << 10 >> \o t.ss \o << -1 >> \o t.mmm

\* a <= b for strings
RECURSIVE LexLeq(_, _)
LexLeq(a, b) ==
    IF a = << >> THEN TRUE
    ELSE IF b = << >> THEN FALSE
    ELSE IF Head(a) # Head(b) THEN Head(a) < Head(b)
    ELSE LexLeq(Tail(a), Tail(b))

\* lines.sort(key=lambda x: x[0]): stable, by the start string
AssInsertByStart(e, sorted) ==
    LET k == Cardinality({ i \in 1..Len(sorted) :
                             LexLeq(SrtText(sorted[i].start), SrtText(e.start)) })
    IN  SubSeq(sorted, 1, k) \o << e >> \o SubSeq(sorted, k + 1, Len(sorted))

RECURSIVE AssSortByStart(_)
AssSortByStart(lines) ==
    IF lines = << >> THEN << >>
    ELSE AssInsertByStart(lines[Len(lines)],
                          AssSortByStart(SubSeq(lines, 1, Len(lines) - 1)))

convert_ass_to_srt_basic(content) ==
    LET lines == DialogueLoop(content, << >>)
    IN  IF lines = << >>
        THEN [ok |-> FALSE, entries |-> << >>, written |-> << >>]
        ELSE [ok |-> TRUE, entries |-> AssSortByStart(lines),
              written |-> WriteSrt(AssSortByStart(lines))]

-----------------------------------------------------------------------------
(* The SRT files the two basic converters write, from bounded ASS and TTML    *)
(* documents.                                                                 *)

MaxDialogues == 2

AssDocTimes ==
    { [h |-> << 0 >>, m |-> << 0, 0 >>, s |-> s, cs |-> cs] :
        s \in { << 0, 1 >>, << 0, 2 >> }, cs \in { << 0, 0 >>, << 5, 0 >> } }

AssDocTexts ==
    { << "H", "e", "l", "l", "o" >>,
      << "{", "\\", "i", "1", "}", "H", "e", "l", "l", "o" >>,
      << "O", "h", "\\", "N", "n", "o" >>,
      << "m", " ", "0", " ", "l", " ", "1" >>,
      << "A", "M", " ", "o", "k" >>,
      << "a", "b" >>,
      << >> }

AssDocLines ==
    [kind : {"dialogue"}, start : AssDocTimes, end : AssDocTimes,
     text : AssDocTexts]
    \cup [kind : {"short", "other"}, start : {ZeroAssTime}, end : {ZeroAssTime},
          text : {<< >>}]

AssDocs(n) == UNION { [1..k -> AssDocLines] : k \in 0..n }

AssInit ==
    /\ cIn \in AssDocs(MaxDialogues)
    /\ cOut = << >>
    /\ cpc = "ass_in"

RunAss ==
    /\ cpc = "ass_in"
    /\ cOut' = convert_ass_to_srt_basic(cIn)
    /\ cpc' = "ass_out"
    /\ UNCHANGED cIn
    /\ UNCHANGED << remuxVars, dedupVars, batchVars, mergeVars, webVars >>

InitSrtFiles == (TtmlInit \/ AssInit) /\ RemuxIdle /\ DedupIdle /\ BatchIdle /\ MergeIdle /\ WebIdle

NextSrtFiles == RunTtml \/ RunAss

SpecSrtFiles == InitSrtFiles /\ [][NextSrtFiles]_vars

\* the start of a written entry in milliseconds
AssSrtMs(t) ==
    ((IntOf(t.hh) * 60 + IntOf(t.mm)) * 60 + IntOf(t.ss)) * 1000 + IntOf(t.mmm)

StartMs(e) == IF cpc = "ass_out" THEN AssSrtMs(e.start) ELSE SrtMs(e.start)

\* C11: the SRT file written by the ASS and by the TTML converter has its
\* entries sorted by start time, numbered 1, 2, ... in that order, and no two
\* entries with the same (start, end, text).
C11_SortedNumberedNoDuplicates ==
    (cpc \in {"ass_out", "ttml_out"} /\ cOut.ok) =>
        LET w == cOut.written
        IN  /\ \A i, j \in 1..Len(w) : i < j => StartMs(w[i]) <= StartMs(w[j])
            /\ \A i \in 1..Len(w) : w[i].index = i
            /\ \A i, j \in 1..Len(w) :
                   i # j => << w[i].start, w[i].end, w[i].text >>
                            # << w[j].start, w[j].end, w[j].text >>

-----------------------------------------------------------------------------
(* Extracted subtitle content: a sequence of lines.  The first line of an     *)
(* HDMV PGS stream starts with the magic bytes "PG".                          *)

BitmapMagic == "PG"
DigitsLine == "1"
TimecodeLine == "00:00:01,000 --> 00:00:02,000"
TextLine == "Hello"
VectorLine == "m 0 0 l 10 10"
TtmlLine == "<p begin='1s' end='2s'>Hi</p>"
AssLine == "Dialogue: 0,0:00:01.00,0:00:02.00,Default,,0,0,0,,Hello"

ContentLines ==
    { BitmapMagic, DigitsLine, TimecodeLine, TextLine, VectorLine, TtmlLine,
      AssLine }

HasArrow(line) == line = TimecodeLine
HasComma(line) == line \in {TimecodeLine, AssLine}
IsDigitsOnly(line) == line = DigitsLine
HasVectorPattern(line) == line = VectorLine

StartsWithBitmapMagic(content) ==
    content # << >> /\ content[1] = BitmapMagic

is_srt_format(content) ==
    LET srt_pattern ==
            \E i \in 1..(Len(content) - 1) :
                IsDigitsOnly(content[i]) /\ content[i + 1] = TimecodeLine
        has_srt_timecode ==
            /\ \E i \in 1..Len(content) : HasArrow(content[i])
            /\ \E i \in 1..Len(content) : HasComma(content[i])
        has_srt_numbering ==
            \E i \in 1..Len(content) : IsDigitsOnly(content[i])
    IN  srt_pattern \/ (has_srt_timecode /\ has_srt_numbering)

\* the paragraphs the TTML patterns find in the content
TtmlDocOf(content) ==
    LET found == SelectSeq(content, LAMBDA line : line = TtmlLine)
    IN  [shape |-> "begin_end",
         paras |-> [i \in 1..Len(found) |->
                      [time1 |-> [fmt |-> "s", n |-> 1],
                       time2 |-> [fmt |-> "s", n |-> 2],
                       text  |-> "Hi"]]]

\* the lines of the content as convert_ass_to_srt_basic reads them
AssDocOf(content) ==
    [i \in 1..Len(content) |->
        IF content[i] = AssLine
        THEN [kind |-> "dialogue",
              start |-> [h |-> << 0 >>, m |-> << 0, 0 >>, s |-> << 0, 1 >>,
                         cs |-> << 0, 0 >>],
              end |-> [h |-> << 0 >>, m |-> << 0, 0 >>, s |-> << 0, 2 >>,
                       cs |-> << 0, 0 >>],
              text |-> << "H", "e", "l", "l", "o" >>]
        ELSE [kind |-> "other", start |-> ZeroAssTime, end |-> ZeroAssTime,
              text |-> << >>]]

ConvResult(success, reason, wrote) ==
    [success |-> success, reason |-> reason, wrote |-> wrote]

\* ffmpeg: "absent" (not found), "converts" (return code 0), "fails"
convert_subtitle_to_srt(content, ffmpeg, copy_ok) ==
    LET is_ttml == \E i \in 1..Len(content) : content[i] = TtmlLine
        is_ass  == \E i \in 1..Len(content) : content[i] = AssLine
    IN  IF is_srt_format(content)
        THEN IF copy_ok
             THEN ConvResult(TRUE, "Already in SRT format", TRUE)
             ELSE ConvResult(FALSE, "Failed to copy SRT file", FALSE)
        ELSE IF ffmpeg = "converts"
        THEN ConvResult(TRUE, "Converted using ffmpeg", TRUE)
        ELSE IF is_ttml /\ convert_ttml_to_srt_basic(TtmlDocOf(content)).ok
        THEN ConvResult(TRUE, "Converted using basic TTML parser", TRUE)
        ELSE IF ~is_ttml /\ is_ass
                /\ convert_ass_to_srt_basic(AssDocOf(content)).ok
        THEN ConvResult(TRUE, "Converted using basic ASS parser", TRUE)
        ELSE ConvResult(FALSE,
                 "No suitable conversion tool found (FFmpeg recommended)",
                 FALSE)

\* the conversion step of the legacy process_subtitles_with_conversion:
\* SRT detection, then the magic-byte and vector-graphics checks, then the
\* converter; a failing rename is caught by the enclosing handler
legacy_conversion(content, ffmpeg, copy_ok) ==
    IF is_srt_format(content)
    THEN IF copy_ok
         THEN ConvResult(TRUE, "Already in SRT format", TRUE)
         ELSE ConvResult(FALSE, "Error processing subtitle track", FALSE)
    ELSE IF StartsWithBitmapMagic(content)
    THEN ConvResult(FALSE, "PGS subtitles are bitmap images, not text", FALSE)
    ELSE IF \E i \in 1..Len(content) : HasVectorPattern(content[i])
    THEN ConvResult(FALSE,
             "Vector graphics subtitles are image-based, not text", FALSE)
    ELSE convert_subtitle_to_srt(content, ffmpeg, copy_ok)

-----------------------------------------------------------------------------
(* Specification SpecConv: one conversion attempt on bounded content, by the  *)
(* converter itself or by the legacy conversion step.  ffmpeg cannot turn a   *)
(* bitmap stream into text, so it never "converts" bitmap content.            *)

MaxLines == 3

FfmpegStates == {"absent", "converts", "fails"}

ConvInit ==
    /\ cIn \in { x \in [content : SeqsUpTo(ContentLines, MaxLines) \ {<< >>},
                        ffmpeg  : FfmpegStates,
                        copy_ok : BOOLEAN] :
                   StartsWithBitmapMagic(x.content) => x.ffmpeg # "converts" }
    /\ cOut = << >>
    /\ cpc = "conv_in"

ConvertSubtitleToSrt ==
    /\ cpc = "conv_in"
    /\ cOut' = convert_subtitle_to_srt(cIn.content, cIn.ffmpeg, cIn.copy_ok)
    /\ cpc' = "conv_out"
    /\ UNCHANGED cIn
    /\ UNCHANGED << remuxVars, dedupVars, batchVars, mergeVars, webVars >>

LegacyConversion ==
    /\ cpc = "conv_in"
    /\ cOut' = legacy_conversion(cIn.content, cIn.ffmpeg, cIn.copy_ok)
    /\ cpc' = "legacy_out"
    /\ UNCHANGED cIn
    /\ UNCHANGED << remuxVars, dedupVars, batchVars, mergeVars, webVars >>

InitConv == ConvInit /\ RemuxIdle /\ DedupIdle /\ BatchIdle /\ MergeIdle /\ WebIdle

NextConv == ConvertSubtitleToSrt \/ LegacyConversion

SpecConv == InitConv /\ [][NextConv]_vars

-----------------------------------------------------------------------------
(* C7: a conversion attempt on content that starts with the bitmap magic      *)
(* bytes never reports success, never writes an output file, and its failure  *)
(* reason names the bitmap nature of the input, whatever else the content     *)
(* holds and whether or not ffmpeg is installed.                              *)

BitmapReasons == {"PGS subtitles are bitmap images, not text"}

C7_BitmapConversionFails ==
    (cpc \in {"conv_out", "legacy_out"} /\ StartsWithBitmapMagic(cIn.content))
        => /\ ~cOut.success
           /\ ~cOut.wrote
           /\ cOut.reason \in BitmapReasons

-----------------------------------------------------------------------------
(* extract_series_info.  A filename is a sequence of characters.              *)

UpperCase ==
    << "A", "B", "C", "D", "E", "F", "G", "H", "I", "J", "K", "L", "M" >>
    \o << "N", "O", "P", "Q", "R", "S", "T", "U", "V", "W", "X", "Y", "Z" >>

LowerCase ==
    << "a", "b", "c", "d", "e", "f", "g", "h", "i", "j", "k", "l", "m" >>
    \o << "n", "o", "p", "q", "r", "s", "t", "u", "v", "w", "x", "y", "z" >>

CharLower(c) ==
    IF \E i \in 1..26 : UpperCase[i] = c
    THEN LowerCase[CHOOSE i \in 1..26 : UpperCase[i] = c]
    ELSE c

Lower(s) == [i \in 1..Len(s) |-> CharLower(s[i])]

DigitChars == << "0", "1", "2", "3", "4", "5", "6", "7", "8", "9" >>

IsDigit(c) == \E i \in 1..10 : DigitChars[i] = c

DigitVal(c) == (CHOOSE i \in 1..10 : DigitChars[i] = c) - 1

\* int(text) for a run of digits
IntOfChars(s) == IntOf([i \in 1..Len(s) |-> DigitVal(s[i])])

\* f"{n:02d}"
Format02d(n) == [i \in 1..Len(Pad(n, 2)) |-> DigitChars[Pad(n, 2)[i] + 1]]

\* the placeholders are "###" + name + "_DOT###"
Placeholder(name) ==
    << "#", "#", "#" >> \o name \o << "_", "D", "O", "T", "#", "#", "#" >>

\* the dictionary, in its order of insertion
ABBREVIATIONS ==
    << [abbrev |-> << "K", "." >>, placeholder |-> Placeholder(<< "K" >>)],
       [abbrev |-> << "D", "r", "." >>, placeholder |-> Placeholder(<< "D", "R" >>)],
       [abbrev |-> << "M", "r", "." >>, placeholder |-> Placeholder(<< "M", "R" >>)],
       [abbrev |-> << "M", "r", "s", "." >>, placeholder |-> Placeholder(<< "M", "R", "S" >>)],
       [abbrev |-> << "M", "s", "." >>, placeholder |-> Placeholder(<< "M", "S" >>)],
       [abbrev |-> << "S", "t", "." >>, placeholder |-> Placeholder(<< "S", "T" >>)],
       [abbrev |-> << "J", "r", "." >>, placeholder |-> Placeholder(<< "J", "R" >>)],
       [abbrev |-> << "S", "r", "." >>, placeholder |-> Placeholder(<< "S", "R" >>)] >>

\* the tags of QUALITY_TAGS_SERIES that are plain texts, in lower case
QUALITY_TAGS_SERIES ==
    { << "1", "0", "8", "0", "p" >>, << "7", "2", "0", "p" >>,
      << "4", "8", "0", "p" >>, << "4", "k" >>, << "u", "h", "d" >>,
      << "h", "d", "r" >>, << "w", "e", "b", "-", "d", "l" >>,
      << "b", "l", "u", "r", "a", "y" >>, << "b", "d", "r", "i", "p" >>,
      << "d", "v", "d", "r", "i", "p" >>, << "x", "2", "6", "4" >>,
      << "x", "2", "6", "5" >>, << "h", "e", "v", "c" >>,
      << "a", "a", "c" >>, << "d", "t", "s" >>, << "a", "c", "3" >>,
      << "5", ".", "1" >>, << "2", ".", "0" >>,
      << "m", "s", "u", "b", "s" >>, << "n", "f" >>,
      << "a", "m", "z", "n" >>, << "h", "u", "l", "u" >>,
      << "d", "s", "n", "p" >>, << "h", "b", "o" >>,
      << "p", "a", "r", "a", "m", "o", "u", "n", "t" >>,
      << "a", "p", "p", "l", "e" >>, << "p", "e", "a", "c", "o", "c", "k" >>,
      << "s", "h", "o", "w", "t", "i", "m", "e" >>,
      << "s", "t", "a", "r", "z" >>, << "v", "u", "d", "u" >>,
      << "f", "a", "n", "d", "a", "n", "g", "o" >>, << "r", "o", "k", "u" >>,
      << "t", "u", "b", "i" >>, << "c", "r", "a", "c", "k", "l", "e" >>,
      << "p", "l", "u", "t", "o" >>, << "f", "r", "e", "e", "v", "e", "e" >>,
      << "r", "e", "d", "b", "o", "x" >> }

\* the tags of QUALITY_TAGS_SERIES that are a word, white space and digits
QUALITY_TAGS_NUMBERED ==
    { << "e", "p", "i", "s", "o", "d", "e" >>, << "e", "p" >>,
      << "p", "a", "r", "t" >> }

Delimiters == {".", "_", "-"}

\* str.replace(old, new): the occurrences from the left, not overlapping
RECURSIVE Replace(_, _, _)
Replace(s, old, new) ==
    IF Len(s) < Len(old) THEN s
    ELSE IF SubSeq(s, 1, Len(old)) = old
         THEN new \o Replace(SubSeq(s, Len(old) + 1, Len(s)), old, new)
    ELSE << Head(s) >> \o Replace(Tail(s), old, new)

\* os.path.splitext(filename)[0]: cut at the last dot that has a character
\* other than a dot before it
SplitExtBase(filename) ==
    LET dotIndex == RFind(filename, << "." >>)
    IN  IF dotIndex > 0 /\ \E i \in 1..dotIndex : filename[i] # "."
        THEN SubSeq(filename, 1, dotIndex)
        ELSE filename

\* the loop over ABBREVIATIONS.items() that replaces abbrev by placeholder
RECURSIVE Protect(_, _)
Protect(name, i) ==
    IF i > Len(ABBREVIATIONS) THEN name
    ELSE Protect(Replace(name, ABBREVIATIONS[i].abbrev,
                         ABBREVIATIONS[i].placeholder), i + 1)

\* the loop over ABBREVIATIONS.items() that replaces placeholder by abbrev
RECURSIVE Restore(_, _)
Restore(title, i) ==
    IF i > Len(ABBREVIATIONS) THEN title
    ELSE Restore(Replace(title, ABBREVIATIONS[i].placeholder,
                         ABBREVIATIONS[i].abbrev), i + 1)

\* the index after the run of digits that starts at i
RECURSIVE DigitsEnd(_, _)
DigitsEnd(s, i) ==
    IF i <= Len(s) /\ IsDigit(s[i]) THEN DigitsEnd(s, i + 1) ELSE i

\* SEASON_EPISODE_PATTERN = [Ss](\d+)[Ee](\d+) matches at i
MatchesSeasonEpisodeAt(s, i) ==
    /\ i + 3 <= Len(s)
    /\ s[i] \in {"S", "s"}
    /\ IsDigit(s[i + 1])
    /\ LET e == DigitsEnd(s, i + 1)
       IN  /\ e + 1 <= Len(s)
           /\ s[e] \in {"E", "e"}
           /\ IsDigit(s[e + 1])

\* re.search(SEASON_EPISODE_PATTERN, s): the leftmost match (first and last
\* are the 1-based positions of its first and last character) or no match
season_episode_search(s) ==
    LET at == { i \in 1..Len(s) : MatchesSeasonEpisodeAt(s, i) }
    IN  IF at = {} THEN [found |-> FALSE]
        ELSE LET i == CHOOSE x \in at : \A y \in at : x <= y
                 e == DigitsEnd(s, i + 1)
                 last == DigitsEnd(s, e + 1) - 1
             IN  [found |-> TRUE, first |-> i, last |-> last,
                  group1 |-> SubSeq(s, i + 1, e - 1),
                  group2 |-> SubSeq(s, e + 1, last)]

\* re.sub(r'[._-]+$', '', s)
RECURSIVE StripTrailingDelimiters(_)
StripTrailingDelimiters(s) ==
    IF s # << >> /\ s[Len(s)] \in Delimiters
    THEN StripTrailingDelimiters(SubSeq(s, 1, Len(s) - 1))
    ELSE s

\* re.sub(r'^[._-]+', '', s)
RECURSIVE StripLeadingDelimiters(_)
StripLeadingDelimiters(s) ==
    IF s # << >> /\ Head(s) \in Delimiters
    THEN StripLeadingDelimiters(Tail(s))
    ELSE s

\* re.sub(r'[._-]+', ' ', s): every run of delimiters becomes one space
RECURSIVE DelimitersToSpace(_)
DelimitersToSpace(s) ==
    IF s = << >> THEN << >>
    ELSE IF Head(s) \in Delimiters
         THEN << " " >> \o DelimitersToSpace(StripLeadingDelimiters(s))
    ELSE << Head(s) >> \o DelimitersToSpace(Tail(s))

\* the index after the run of white space that starts at i
RECURSIVE SpaceEnd(_, _)
SpaceEnd(s, i) ==
    IF i <= Len(s) /\ s[i] \in Whitespace THEN SpaceEnd(s, i + 1) ELSE i

\* one of the alternatives of QUALITY_PATTERN_SERIES matches at i, ignoring case
QualityTagAt(s, i) ==
    LET low == Lower(s)
        StartsWith(t) == /\ i + Len(t) - 1 <= Len(s)
                         /\ SubSeq(low, i, i + Len(t) - 1) = t
    IN  \/ \E t \in QUALITY_TAGS_SERIES : StartsWith(t)
        \/ /\ IsDigit(s[i])
           /\ LET e == DigitsEnd(s, i)
              IN  /\ e + 3 <= Len(s)
                  /\ SubSeq(low, e, e + 3) = << "k", "b", "p", "s" >>
        \/ \E t \in QUALITY_TAGS_NUMBERED :
               /\ StartsWith(t)
               /\ LET e == SpaceEnd(s, i + Len(t))
                  IN  e > i + Len(t) /\ e <= Len(s) /\ IsDigit(s[e])

\* re.sub(QUALITY_PATTERN_SERIES, '', s, flags=re.IGNORECASE).strip(): the
\* text from the white space before the first tag to the end is removed
RemoveQualityTail(s) ==
    LET at == { i \in 1..Len(s) : QualityTagAt(s, i) }
    IN  IF at = {} THEN Strip(s)
        ELSE Strip(SubSeq(s, 1, (CHOOSE x \in at : \A y \in at : x <= y) - 1))

NoSeriesInfo ==
    [found |-> FALSE, series_title |-> << >>, season_episode_tag |-> << >>,
     season_num |-> 0, episode_num |-> 0, has_episode_title |-> FALSE,
     episode_title |-> << >>]

extract_series_info(filename) ==
    LET base_name == SplitExtBase(filename)
        protected_name == Protect(base_name, 1)
        season_episode_match == season_episode_search(protected_name)
    IN  IF ~season_episode_match.found THEN NoSeriesInfo
        ELSE
        LET season_num == IntOfChars(season_episode_match.group1)
            episode_num == IntOfChars(season_episode_match.group2)
            season_episode_tag ==
                << "S" >> \o Format02d(season_num)
                \o << "E" >> \o Format02d(episode_num)
            series_part ==
                Strip(SubSeq(protected_name, 1, season_episode_match.first - 1))
            series_title ==
                Strip(DelimitersToSpace(StripTrailingDelimiters(series_part)))
            episode_part ==
                StripLeadingDelimiters(
                    Strip(SubSeq(protected_name, season_episode_match.last + 1,
                                 Len(protected_name))))
            episode_title ==
                Strip(DelimitersToSpace(
                    StripTrailingDelimiters(RemoveQualityTail(episode_part))))
            restored_series == Strip(Restore(series_title, 1))
            restored_episode == Strip(Restore(episode_title, 1))
            empty_title ==
                \/ restored_episode = << >>
                \/ Len(restored_episode) < 2
                \/ Lower(restored_episode)
                     \in { << "e", "p", "i", "s", "o", "d", "e" >>, << "e", "p" >> }
        IN  [found |-> TRUE, series_title |-> restored_series,
             season_episode_tag |-> season_episode_tag,
             season_num |-> season_num, episode_num |-> episode_num,
             has_episode_title |-> ~empty_title,
             episode_title |-> IF empty_title THEN << >> ELSE restored_episode]

-----------------------------------------------------------------------------
(* extract_series_info on bounded filenames: up to MaxPieces pieces, a        *)
(* season/episode marker or none, up to MaxPieces pieces, ".mkv".             *)

MaxPieces == 2

NamePieces ==
    { << "D", "r", "." >>, << "K", "." >>, << "H", "o", "u", "s", "e" >>,
      << "." >>, << " " >>, << "1", "0", "8", "0", "p" >> }

Markers ==
    { << "S", "0", "1", "E", "0", "2" >>, << "s", "1", "e", "2" >>,
      << "S", "0", "0", "1", "E", "0", "0", "2" >>,
      << "S", "1", "2", "3", "E", "4" >>, << "S", "1", "E", "1", "0", "0" >>,
      << >> }

SeriesFileNames(n) ==
    { Flatten(before) \o marker \o Flatten(after) \o << ".", "m", "k", "v" >> :
        before \in SeqsUpTo(NamePieces, n), marker \in Markers,
        after \in SeqsUpTo(NamePieces, n) }

InfoInit ==
    /\ cIn \in SeriesFileNames(MaxPieces)
    /\ cOut = << >>
    /\ cpc = "info_in"

ExtractSeriesInfo ==
    /\ cpc = "info_in"
    /\ cOut' = extract_series_info(cIn)
    /\ cpc' = "info_out"
    /\ UNCHANGED cIn
    /\ UNCHANGED << remuxVars, dedupVars, batchVars, mergeVars, webVars >>

InitInfo == InfoInit /\ RemuxIdle /\ DedupIdle /\ BatchIdle /\ MergeIdle /\ WebIdle

SpecInfo == InitInfo /\ [][ExtractSeriesInfo]_vars

\* the marker of a filename, and the texts before and after it
MarkerOf(filename) == season_episode_search(SplitExtBase(filename))

SeriesPart(filename) ==
    SubSeq(SplitExtBase(filename), 1, MarkerOf(filename).first - 1)

EpisodePart(filename) ==
    RemoveQualityTail(SubSeq(SplitExtBase(filename), MarkerOf(filename).last + 1,
                             Len(SplitExtBase(filename))))

\* C13: when the series-title or the episode-title part of a filename holds a
\* known abbreviation, extract_series_info returns titles in which that
\* abbreviation stands with its dot and in which nothing of a placeholder
\* remains.
C13_AbbreviationRoundTrip ==
    (cpc = "info_out" /\ MarkerOf(cIn).found) =>
        \A i \in 1..Len(ABBREVIATIONS) :
            LET abbrev == ABBREVIATIONS[i].abbrev
            IN  /\ HasSub(SeriesPart(cIn), abbrev) =>
                      /\ cOut.found
                      /\ HasSub(cOut.series_title, abbrev)
                      /\ "#" \notin Range(cOut.series_title)
                /\ HasSub(EpisodePart(cIn), abbrev) =>
                      /\ cOut.found
                      /\ HasSub(cOut.episode_title, abbrev)
                      /\ "#" \notin Range(cOut.episode_title)

\* C14: for a filename with a season/episode marker the tag returned is "S",
\* two digits, "E", two digits, and season and episode are the integer values
\* of the marker's digit runs.
C14_TagTwoDigitsEach ==
    (cpc = "info_out" /\ MarkerOf(cIn).found) =>
        /\ cOut.found
        /\ Len(cOut.season_episode_tag) = 6
        /\ cOut.season_episode_tag[1] = "S"
        /\ cOut.season_episode_tag[4] = "E"
        /\ \A i \in {2, 3, 5, 6} : IsDigit(cOut.season_episode_tag[i])
        /\ cOut.season_num = IntOfChars(MarkerOf(cIn).group1)
        /\ cOut.episode_num = IntOfChars(MarkerOf(cIn).group2)

-----------------------------------------------------------------------------
(* C15: the names of the persisted subtitle files.                            *)

\* {baseName}.{lang}[.forced][.sdh].srt for the muxed output's base name
PersistedNames(output_base) ==
    { Path(output_base \o << << lang >> >> \o NameSuffix(forced, sdh), "srt") :
        lang \in Langs, forced \in BOOLEAN, sdh \in BOOLEAN }

\* C15: after a file has been muxed with saved subtitles, every persisted
\* subtitle file is named {baseName}.{lang}[.forced][.sdh].srt with the muxed
\* output's base name: nothing of the source file's name stands between
\* baseName and lang, and "forced" precedes "sdh".
C15_PersistedSubtitleNames ==
    (pc = "LoggedAndCleaned" /\ psub.saved_subtitle_files # << >>) =>
        \A i \in 1..Len(psub.saved_subtitle_files) :
            \E f \in files \cap PersistedNames(OutputBase(series)) :
                SubSeq(f.parts, Len(OutputBase(series)) + 1, Len(f.parts))
                  = SubSeq(psub.saved_subtitle_files[i].parts,
                           Len(series.base_name) + 1,
                           Len(psub.saved_subtitle_files[i].parts))

-----------------------------------------------------------------------------
(* C16: the run log records the removal of every track that is not kept.      *)

\* the change lines of the block appended to the run log for the file
LoggedChanges == Range(run_log[Len(run_log)].changes)

\* the track is neither copied from the source nor added as a converted file
NotInOutput(t) ==
    IF t.type = "audio" THEN ~MuxCopiesAudio(cmd, t.id)
    ELSE ~MuxCopiesSubtitle(cmd, t.id) /\ ~InMuxInstruction(t)

\* C16: for every audio or subtitle track of the input that is not kept in
\* the muxed output, the run-log block appended for the file holds a change
\* line recording that track's removal.
C16_RemovalsLogged ==
    pc = "LoggedAndCleaned" =>
        \A t \in Range(tracks) :
            (t.type \in {"audio", "subtitles"} /\ NotInOutput(t)) =>
                \E c \in LoggedChanges :
                    /\ c.tid = t.id
                    /\ c.what = IF t.type = "audio" THEN "Removed audio track"
                                ELSE "Removed subtitle track"

-----------------------------------------------------------------------------
(* mkv_operations.py: run_mkvmerge.  The mkvmerge process writes lines on its *)
(* stdout and stderr pipes; one thread per pipe runs read_output and calls    *)
(* progress_callback; the caller starts the threads, waits for the process    *)
(* and joins the threads.                                                     *)

MaxStreamLines == 2

Streams == {"stdout", "stderr"}

\* a line without text and a progress line of mkvmerge
LineTexts == {"", "Progress: 50%"}

\* the four compiled patterns, in the order of the list
progress_patterns == << "Progress:%", "%", "[%]", "muxing:%" >>

\* int(match.group(1)) of pattern k for the line, -1 when there is no match
PatternMatch(k, text) ==
    IF text = "Progress: 50%" THEN << 50, 50, -1, -1 >>[k] ELSE -1

NoLine == [no |-> 0, text |-> ""]

\* stream.readline() taking the newest line of the pipe instead of the oldest
readline_newest(pipe) ==
    [line |-> pipe[Len(pipe)], rest |-> SubSeq(pipe, 1, Len(pipe) - 1)]

\* stream.readline() on a pipe that holds a line: the oldest line
readline(pipe) == [line |-> Head(pipe), rest |-> Tail(pipe)]

MergeInit ==
    /\ \E out \in [Streams -> SeqsUpTo(LineTexts, MaxStreamLines)] :
          process = [out |-> out, written |-> [s \in Streams |-> 0],
                     exited |-> FALSE, returncode |-> 0]
    /\ pipes = [s \in Streams |-> << >>]
    /\ readers = [s \in Streams |-> [pc |-> "not_started", line |-> NoLine, k |-> 1]]
    /\ calls = << >>
    /\ mpc = "popen"

\* the process writes its next line on one of its pipes
ProcessWrite ==
    /\ \E s \in Streams :
          /\ ~process.exited
          /\ process.out[s] # << >>
          /\ pipes' = [pipes EXCEPT ![s] =
                         Append(@, [no |-> process.written[s] + 1,
                                    text |-> Head(process.out[s])])]
          /\ process' = [process EXCEPT !.out[s] = Tail(@),
                                        !.written[s] = @ + 1]
    /\ UNCHANGED << readers, calls, mpc >>
    /\ UNCHANGED << remuxVars, dedupVars, batchVars, convVars, webVars >>

\* the process ends with return code 0 or with another one, and its pipes
\* are closed
ProcessExit ==
    /\ ~process.exited
    /\ \A s \in Streams : process.out[s] = << >>
    /\ \E code \in {0, 1} :
          process' = [process EXCEPT !.exited = TRUE, !.returncode = code]
    /\ UNCHANGED << pipes, readers, calls, mpc >>
    /\ UNCHANGED << remuxVars, dedupVars, batchVars, convVars, webVars >>

\* stdout_thread.start()
StartStdoutThread ==
    /\ mpc = "popen"
    /\ readers' = [readers EXCEPT !["stdout"].pc = "readline"]
    /\ mpc' = "stdout_started"
    /\ UNCHANGED << process, pipes, calls >>
    /\ UNCHANGED << remuxVars, dedupVars, batchVars, convVars, webVars >>

\* stderr_thread.start()
StartStderrThread ==
    /\ mpc = "stdout_started"
    /\ readers' = [readers EXCEPT !["stderr"].pc = "readline"]
    /\ mpc' = "wait"
    /\ UNCHANGED << process, pipes, calls >>
    /\ UNCHANGED << remuxVars, dedupVars, batchVars, convVars, webVars >>

\* read_output: the next stream.readline() of a thread; an empty pipe blocks
\* until the process has ended, then readline returns '' and the loop ends
ReadLine ==
    /\ \E s \in Streams :
          /\ readers[s].pc = "readline"
          /\ IF pipes[s] # << >>
             THEN /\ pipes' = [pipes EXCEPT ![s] = readline(@).rest]
                  /\ readers' = [readers EXCEPT
                        ![s].line = readline(pipes[s]).line,
                        ![s].k = 1,
                        ![s].pc = IF readline(pipes[s]).line.text = ""
                                  THEN "readline" ELSE "patterns"]
             ELSE /\ process.exited
                  /\ readers' = [readers EXCEPT ![s].pc = "done"]
                  /\ UNCHANGED pipes
    /\ UNCHANGED << process, calls, mpc >>
    /\ UNCHANGED << remuxVars, dedupVars, batchVars, convVars, webVars >>

\* read_output: the loop over progress_patterns from pattern k on, up to and
\* including the next call of progress_callback; the callback returns (break)
\* or raises (the loop goes on with the next pattern)
TryPatterns ==
    /\ \E s \in Streams :
          /\ readers[s].pc = "patterns"
          /\ LET line == readers[s].line
                 matching == { k \in readers[s].k..Len(progress_patterns) :
                                 PatternMatch(k, line.text) # -1 }
             IN  IF matching = {}
                 THEN /\ readers' = [readers EXCEPT ![s].pc = "readline"]
                      /\ UNCHANGED calls
                 ELSE LET k == CHOOSE x \in matching : \A y \in matching : x <= y
                      IN  /\ calls' = Append(calls,
                                 [stream |-> s, no |-> line.no,
                                  progress |-> PatternMatch(k, line.text)])
                          /\ \E raises \in BOOLEAN :
                                readers' = [readers EXCEPT
                                   ![s].k = k + 1,
                                   ![s].pc = IF raises THEN "patterns"
                                             ELSE "readline"]
    /\ UNCHANGED << process, pipes, mpc >>
    /\ UNCHANGED << remuxVars, dedupVars, batchVars, convVars, webVars >>

\* process.wait()
WaitProcess ==
    /\ mpc = "wait"
    /\ process.exited
    /\ mpc' = "join_stdout"
    /\ UNCHANGED << process, pipes, readers, calls >>
    /\ UNCHANGED << remuxVars, dedupVars, batchVars, convVars, webVars >>

\* stdout_thread.join()
JoinStdoutThread ==
    /\ mpc = "join_stdout"
    /\ readers["stdout"].pc = "done"
    /\ mpc' = "join_stderr"
    /\ UNCHANGED << process, pipes, readers, calls >>
    /\ UNCHANGED << remuxVars, dedupVars, batchVars, convVars, webVars >>

\* stderr_thread.join(), then the return code decides
JoinStderrThread ==
    /\ mpc = "join_stderr"
    /\ readers["stderr"].pc = "done"
    /\ mpc' = IF process.returncode # 0 THEN "raised" ELSE "returned"
    /\ UNCHANGED << process, pipes, readers, calls >>
    /\ UNCHANGED << remuxVars, dedupVars, batchVars, convVars, webVars >>

InitMerge == MergeInit /\ RemuxIdle /\ DedupIdle /\ BatchIdle /\ ConvIdle /\ WebIdle

NextMerge ==
    \/ ProcessWrite
    \/ ProcessExit
    \/ StartStdoutThread
    \/ StartStderrThread
    \/ ReadLine
    \/ TryPatterns
    \/ WaitProcess
    \/ JoinStdoutThread
    \/ JoinStderrThread

SpecMerge == InitMerge /\ [][NextMerge]_vars

\* C17: the invocations of progress_callback caused by the lines of one stream
\* happen in the order in which those lines arrived on that stream, under
\* every interleaving of the two reader threads.
C17_CallbackOrderPerStream ==
    \A i, j \in 1..Len(calls) :
        (i < j /\ calls[i].stream = calls[j].stream) =>
            calls[i].no <= calls[j].no

\* run_mkvmerge has returned; a call for a line of stderr stands between the
\* calls for the first and the second line of stdout
C17_Witness ==
    /\ mpc = "returned"
    /\ \E i, j, k \in 1..Len(calls) :
          /\ i < j /\ j < k
          /\ calls[i].stream = "stdout" /\ calls[i].no = 1
          /\ calls[j].stream = "stderr"
          /\ calls[k].stream = "stdout" /\ calls[k].no = 2

-----------------------------------------------------------------------------
(* C19, C20: what deduplicate_subtitles keeps of a language group.            *)

OfLang(subs, lang) == SelectSeq(subs, LAMBDA t : t.lang = lang)

IsSourced(t) == extract_source(t.track_name) # << >>

\* C19: when a language group has a source-tagged bucket, only members of the
\* selected bucket are kept for that language: every kept candidate carries
\* the same source tag and no untagged candidate, normal or forced, is kept.
C19_OnlySelectedBucketKept ==
    dpc = "out" =>
        \A lang \in Langs :
            (\E t \in Range(OfLang(dIn, lang)) : IsSourced(t)) =>
                \E s \in Range(OfLang(dIn, lang)) :
                    /\ IsSourced(s)
                    /\ \A t \in Range(OfLang(dOut, lang)) :
                          extract_source(t.track_name)
                            = extract_source(s.track_name)

\* the ids of the first normal and of the first forced candidate of a group
FirstOfEach(group) ==
    { group[i].id : i \in { k \in 1..Len(group) :
        \A j \in 1..(k - 1) : group[j].forced # group[k].forced } }

\* C20: when a language group of two or more members has no source-tagged
\* bucket, exactly the first untagged normal candidate (if any) and the first
\* untagged forced candidate (if any) are kept of that language.
C20_FirstUnsourcedOfEachKind ==
    dpc = "out" =>
        \A lang \in Langs :
            LET group == OfLang(dIn, lang)
            IN  (Len(group) >= 2 /\ \A t \in Range(group) : ~IsSourced(t)) =>
                    { t.id : t \in Range(OfLang(dOut, lang)) } = FirstOfEach(group)

-----------------------------------------------------------------------------
(* deduplicate_subtitles on one language group of up to MaxTieCands           *)
(* candidates, tagged [A], tagged [B] or untagged: the choice of the bucket.  *)

MaxTieCands == 4

DedupTieInit ==
    /\ dIn \in { CandidatesWithIds(cs) :
                   cs \in SeqsUpTo([ lang : {"eng"}, forced : BOOLEAN,
                                     hearing_impaired : { FALSE },
                                     track_name : { NoName, NameA, NameB } ],
                                   MaxTieCands) }
    /\ dOut = << >>
    /\ dpc = "in"

InitDedupTie == DedupTieInit /\ RemuxIdle /\ BatchIdle /\ ConvIdle /\ MergeIdle /\ WebIdle

SpecDedupTie == InitDedupTie /\ [][RunDedup]_vars

\* the positions in the input of the members of a language's bucket
BucketAt(lang, source) ==
    { i \in 1..Len(dIn) : /\ dIn[i].lang = lang
                          /\ extract_source(dIn[i].track_name) = source }

SourcesOf(subs, lang) ==
    { extract_source(t.track_name) : t \in { u \in Range(subs) :
                                              u.lang = lang /\ IsSourced(u) } }

BucketScore(lang, source) ==
    LET has_normal == \E i \in BucketAt(lang, source) : ~dIn[i].forced
        has_forced == \E i \in BucketAt(lang, source) : dIn[i].forced
    IN  IF has_normal /\ has_forced THEN 100
        ELSE IF has_normal THEN 50
        ELSE 25

FirstMember(lang, source) ==
    CHOOSE i \in BucketAt(lang, source) : \A j \in BucketAt(lang, source) : i <= j

\* C21: per language the bucket with the highest score is selected, and among
\* buckets with the same highest score the one whose first member stands
\* earliest in the input list.
C21_BestBucketEarliestOnTie ==
    dpc = "out" =>
        \A lang \in Langs :
            \A kept \in SourcesOf(dOut, lang) :
                \A other \in SourcesOf(dIn, lang) \ { kept } :
                    \/ BucketScore(lang, kept) > BucketScore(lang, other)
                    \/ /\ BucketScore(lang, kept) = BucketScore(lang, other)
                       /\ FirstMember(lang, kept) < FirstMember(lang, other)

-----------------------------------------------------------------------------
(* Both implementations of deduplicate_subtitles on every candidate list.     *)

RunLegacyDedup ==
    /\ dpc = "in"
    /\ dOut' = legacy_deduplicate_subtitles(dIn)
    /\ dpc' = "legacy_out"
    /\ UNCHANGED dIn
    /\ UNCHANGED << remuxVars, batchVars, convVars, mergeVars, webVars >>

NextDedupBoth == RunDedup \/ RunLegacyDedup

SpecDedupBoth == InitDedup /\ [][NextDedupBoth]_vars

\* C22: the output of deduplicate_subtitles, in both implementations, is a
\* sub-list of its input: every returned track is an input track, no input
\* track is returned more than once, and a language group of exactly one
\* member contributes exactly that track, once.
C22_OutputIsSubList ==
    dpc \in {"out", "legacy_out"} =>
        /\ \A i \in 1..Len(dOut) : dOut[i] \in Range(dIn)
        /\ \A i, j \in 1..Len(dOut) : i # j => dOut[i].id # dOut[j].id
        /\ \A lang \in Langs :
              Len(OfLang(dIn, lang)) = 1 => OfLang(dOut, lang) = OfLang(dIn, lang)

-----------------------------------------------------------------------------
(* break_long_subtitle_lines on one long line: three words of up to           *)
(* MaxWordLen letters joined by two separators.                               *)

MaxWordLen == 7

BreakLineLengths == {10, 12}

WordSeparators ==
    { << ".", " " >>, << ";", " " >>, << ",", " " >>, << ":", " " >>,
      << " ", "a", "n", "d", " " >>, << " " >> }

WordOf(n) == [i \in 1..n |-> "a"]

BreakInit ==
    /\ \E n1, n2, n3 \in 1..MaxWordLen : \E sep1, sep2 \in WordSeparators :
       \E max_line_length \in BreakLineLengths :
          cIn = [text |-> WordOf(n1) \o sep1 \o WordOf(n2) \o sep2 \o WordOf(n3),
                 max_line_length |-> max_line_length]
    /\ cOut = << >>
    /\ cpc = "wrap_in"

InitBreak == BreakInit /\ RemuxIdle /\ DedupIdle /\ BatchIdle /\ MergeIdle /\ WebIdle

SpecBreak == InitBreak /\ [][RunWrap]_vars

\* the first line of a text
FirstLine(text) ==
    LET nl == { i \in 1..Len(text) : text[i] = "\n" }
    IN  IF nl = {} THEN text
        ELSE SubSeq(text, 1, (CHOOSE i \in nl : \A j \in nl : i <= j) - 1)

\* a separator of the set stands in the first max_line_length characters,
\* beyond the first half of them
Qualifies(seps) ==
    \E sep \in seps :
        2 * RFind(SubSeq(cIn.text, 1, cIn.max_line_length), sep)
            > cIn.max_line_length

SentenceEnds == { << ".", " " >>, << "!", " " >>, << "?", " " >>, << ";", " " >> }

ClauseSeparators == { << ",", " " >>, << ":", " " >> }

\* C23: when several break candidates qualify within the length budget of a
\* long line, the break is made at sentence-ending punctuation (. ! ? ;) in
\* preference to a clause separator (, :), and at a clause separator in
\* preference to a conjunction or a plain space: the first line ends with
\* the punctuation mark of the preferred candidate.
C23_BreakPreference ==
    (cpc = "wrap_out" /\ Len(cIn.text) > cIn.max_line_length) =>
        LET first == FirstLine(cOut)
        IN  /\ Qualifies(SentenceEnds) =>
                  first[Len(first)] \in { sep[1] : sep \in SentenceEnds }
            /\ (~Qualifies(SentenceEnds) /\ Qualifies(ClauseSeparators)) =>
                  first[Len(first)] \in { sep[1] : sep \in ClauseSeparators }

-----------------------------------------------------------------------------
(* C24: the Dialogue lines convert_ass_to_srt_basic discards.                 *)

\* a single-letter drawing command (move, line, curve, close) surrounded by
\* spaces
IsVectorDrawing(text) ==
    \E i \in 2..(Len(text) - 1) :
        /\ text[i - 1] = " "
        /\ text[i] \in {"m", "l", "b", "c", "z", "M", "L", "B", "C", "Z"}
        /\ text[i + 1] = " "

\* the text of a Dialogue line after tag stripping
TagStripped(line) == Strip(ReplaceLineBreaks(RemoveAssTags(Strip(line.text))))

\* C24: a Dialogue line with ten fields is discarded only if its text is a
\* vector-drawing command or, after tag stripping, has fewer than 2 distinct
\* or fewer than 3 non-space characters; every other Dialogue line, also
\* prose with a capital M, L, C or Z followed by a space, is written as an
\* entry.
C24_OnlyDrawingsAndShortTextsDiscarded ==
    cpc = "ass_out" =>
        \A i \in 1..Len(cIn) :
            ( /\ cIn[i].kind = "dialogue"
              /\ ~IsVectorDrawing(cIn[i].text)
              /\ Cardinality(Range(Squeeze(TagStripped(cIn[i])))) >= 2
              /\ Len(Squeeze(TagStripped(cIn[i]))) >= 3 ) =>
                \E j \in 1..Len(cOut.written) :
                    /\ cOut.written[j].start = convert_ass_time_to_srt(cIn[i].start)
                    /\ cOut.written[j].end = convert_ass_time_to_srt(cIn[i].end)
                    /\ Squeeze(cOut.written[j].text) = Squeeze(TagStripped(cIn[i]))

-----------------------------------------------------------------------------
(* C25: the number of calls of progress_callback a line causes.               *)

\* C25: each output line that holds a percentage token causes exactly one
\* invocation of the progress callback, also when the callback raises an
\* exception: no line of a stream causes two invocations.
C25_OneCallPerLine ==
    \A i, j \in 1..Len(calls) :
        i # j => ~(calls[i].stream = calls[j].stream /\ calls[i].no = calls[j].no)


-----------------------------------------------------------------------------
(* C26: in every mux instruction produced by filter_and_remux, at most one    *)
(* subtitle (a retained original track or a converted external file) carries  *)
(* default-track = yes, and a forced subtitle never carries it.               *)

\* the positions of the external subtitle files in the command
ExternalAt(c) ==
    { k \in 1..Len(c) : c[k].opt = "file" /\ c[k].path.ext = "srt" }

\* the options of the external file at position k: those between the
\* preceding input file and k
OptionsOfFile(c, k) ==
    { i \in 1..(k - 1) : \A j \in i..(k - 1) : c[j].opt # "file" }

\* the retained original subtitle tracks whose option says default-track yes
DefaultOriginals(c) ==
    { tid \in Selected(c, "--subtitle-tracks") :
        HasTrackOpt(c, "--default-track", tid, "yes") }

\* the external subtitle files whose option says default-track yes
DefaultExternals(c) ==
    { k \in ExternalAt(c) :
        \E i \in OptionsOfFile(c, k) :
            c[i].opt = "--default-track" /\ c[i].val = "yes" }

ForcedExternal(c, k) ==
    \E i \in OptionsOfFile(c, k) :
        c[i].opt = "--forced-track" /\ c[i].val = "yes"

C26_AtMostOneDefaultSubtitle ==
    CommandBuilt =>
        /\ Cardinality(DefaultOriginals(cmd)) + Cardinality(DefaultExternals(cmd)) <= 1
        /\ \A tid \in DefaultOriginals(cmd) :
              /\ ~TrackWithId(tid).forced
              /\ ~HasTrackOpt(cmd, "--forced-track", tid, "yes")
        /\ \A k \in DefaultExternals(cmd) : ~ForcedExternal(cmd, k)

\* a forced and an unforced subtitle of the default language are both in the
\* command, and exactly one of them is marked as the default
IsForcedInCommand(c) ==
    \/ \E tid \in Selected(c, "--subtitle-tracks") :
          HasTrackOpt(c, "--forced-track", tid, "yes")
    \/ \E k \in ExternalAt(c) : ForcedExternal(c, k)

C26_Witness ==
    /\ CommandBuilt
    /\ \A t \in SubtitlesOf(tracks) : t.lang = prefs.default_subtitle_lang
    /\ Cardinality(Selected(cmd, "--subtitle-tracks")) + Cardinality(ExternalAt(cmd)) = 2
    /\ IsForcedInCommand(cmd)
    /\ Cardinality(DefaultOriginals(cmd)) + Cardinality(DefaultExternals(cmd)) = 1


-----------------------------------------------------------------------------
(* C27: every subtitle selected by process_subtitles_systematically appears   *)
(* exactly once in the mux command: either its original track id is in the    *)
(* --subtitle-tracks selection, or its converted file is appended as an       *)
(* external input, never both and never neither.                              *)

\* how often the track id stands in the --subtitle-tracks selection
TimesSelected(c, tid) ==
    Cardinality({ p \in { << i, j >> : i \in 1..Len(c), j \in 1..MaxTracks + 1 } :
                    /\ c[p[1]].opt = "--subtitle-tracks"
                    /\ p[2] <= Len(c[p[1]].ids)
                    /\ c[p[1]].ids[p[2]] = tid })

\* how often the path is appended as an input file after the source file
TimesAppended(c, path) ==
    Cardinality({ k \in (SourceFileAt(c) + 1)..Len(c) :
                    c[k].opt = "file" /\ c[k].path = path })

TimesInCommand(c, r) ==
    TimesSelected(c, r.original_id)
    + (IF r.file_path # NoPath THEN TimesAppended(c, r.file_path) ELSE 0)

C27_SelectedExactlyOnce ==
    CommandBuilt =>
        \A i \in 1..Len(psub.final_subtitles) :
            LET r == psub.final_subtitles[i]
            IN /\ TimesInCommand(cmd, r) = 1
               /\ (r.file_path # NoPath) <=> (TimesAppended(cmd, r.file_path) = 1)
               /\ (r.file_path = NoPath) <=> (TimesSelected(cmd, r.original_id) = 1)

\* a command with one selected subtitle kept as an original track and another
\* appended as a converted file
C27_Witness ==
    /\ CommandBuilt
    /\ \E i, j \in 1..Len(psub.final_subtitles) :
          /\ psub.final_subtitles[i].file_path = NoPath
          /\ psub.final_subtitles[j].file_path # NoPath
          /\ TimesSelected(cmd, psub.final_subtitles[i].original_id) = 1
          /\ TimesAppended(cmd, psub.final_subtitles[j].file_path) = 1


-----------------------------------------------------------------------------
(* web/app.py: the request handlers /process, /process_dropped_files and      *)
(* /stop, and the batch threads they start. The development server handles    *)
(* requests in threads of their own, so the statements of different handlers  *)
(* and of the batch threads interleave; every action below is one stretch of  *)
(* a handler or of process_thread between two accesses of processing_status.  *)

MaxRequests == 3    \* HTTP requests sent to the server

Requests == 1..MaxRequests

\* /process, /process_dropped_files with file paths, /process_dropped_files
\* with uploaded files, /stop
Routes == {"process", "dropped_paths", "dropped_upload", "stop"}

StartRoutes == {"process", "dropped_paths", "dropped_upload"}

AlreadyRunning == "Processing is already running"

NoRequest == [ route |-> "none", at |-> "none", response |-> "" ]

WebInit ==
    /\ processing_status = [ is_running |-> FALSE, log |-> << >> ]
    /\ requests = [ r \in Requests |-> NoRequest ]
    /\ threads = [ r \in Requests |-> "none" ]

Respond(r, text) ==
    [ requests EXCEPT ![r].at = "done", ![r].response = text ]

\* a client sends a request
Arrive ==
    \E r \in Requests, route \in Routes :
        /\ requests[r].at = "none"
        /\ requests' = [ requests EXCEPT ![r].route = route, ![r].at = "arrived" ]
        /\ UNCHANGED << processing_status, threads >>
        /\ UNCHANGED << remuxVars, dedupVars, batchVars, convVars, mergeVars >>

\* process_files and process_dropped_files: if processing_status['is_running']
CheckRunning ==
    \E r \in Requests :
        /\ requests[r].at = "arrived"
        /\ requests[r].route \in StartRoutes
        /\ requests' = IF processing_status.is_running
                       THEN Respond(r, AlreadyRunning)
                       ELSE [ requests EXCEPT ![r].at = "checked" ]
        /\ UNCHANGED << processing_status, threads >>
        /\ UNCHANGED << remuxVars, dedupVars, batchVars, convVars, mergeVars >>

\* process_files: the source folder does not exist;
\* process_files_from_paths: no path, or no valid MKV file among the paths
RejectInput ==
    \E r \in Requests :
        /\ requests[r].at = "checked"
        /\ requests[r].route \in {"process", "dropped_paths"}
        /\ requests' = Respond(r, IF requests[r].route = "process"
                                  THEN "Source folder does not exist"
                                  ELSE "No valid MKV files found")
        /\ UNCHANGED << processing_status, threads >>
        /\ UNCHANGED << remuxVars, dedupVars, batchVars, convVars, mergeVars >>

\* process_files and process_uploaded_files raise the flag and reset the log
\* in the handler
RaiseFlag ==
    \E r \in Requests :
        /\ requests[r].at = "checked"
        /\ requests[r].route \in {"process", "dropped_upload"}
        /\ processing_status' = [ is_running |-> TRUE, log |-> << "Starting" >> ]
        /\ requests' = [ requests EXCEPT ![r].at = "flag_set" ]
        /\ UNCHANGED threads
        /\ UNCHANGED << remuxVars, dedupVars, batchVars, convVars, mergeVars >>

\* process_uploaded_files: no MKV file among the uploads, the flag is lowered
RejectUpload ==
    \E r \in Requests :
        /\ requests[r].at = "flag_set"
        /\ requests[r].route = "dropped_upload"
        /\ processing_status' = [ processing_status EXCEPT !.is_running = FALSE ]
        /\ requests' = Respond(r, "No valid MKV files were uploaded")
        /\ UNCHANGED threads
        /\ UNCHANGED << remuxVars, dedupVars, batchVars, convVars, mergeVars >>

\* thread.start() and the success response
StartThread ==
    \E r \in Requests :
        /\ \/ requests[r].at = "flag_set"
           \/ requests[r].at = "checked" /\ requests[r].route = "dropped_paths"
        /\ threads' = [ threads EXCEPT ![r] = "started" ]
        /\ requests' = Respond(r, "Processing started")
        /\ UNCHANGED processing_status
        /\ UNCHANGED << remuxVars, dedupVars, batchVars, convVars, mergeVars >>

\* process_thread begins; the thread of process_files_from_paths raises the
\* flag and resets the log itself
ThreadBegin ==
    \E r \in Requests :
        /\ threads[r] = "started"
        /\ threads' = [ threads EXCEPT ![r] = "working" ]
        /\ processing_status' =
              IF requests[r].route = "dropped_paths"
              THEN [ is_running |-> TRUE, log |-> << >> ]
              ELSE processing_status
        /\ UNCHANGED requests
        /\ UNCHANGED << remuxVars, dedupVars, batchVars, convVars, mergeVars >>

\* process_thread: the loop over the files, up to the finally clause
ThreadWork ==
    \E r \in Requests :
        /\ threads[r] = "working"
        /\ threads' = [ threads EXCEPT ![r] = "finally" ]
        /\ processing_status' =
              [ processing_status EXCEPT !.log = Append(@, "All files processed") ]
        /\ UNCHANGED requests
        /\ UNCHANGED << remuxVars, dedupVars, batchVars, convVars, mergeVars >>

\* process_thread: finally: processing_status['is_running'] = False
ThreadFinally ==
    \E r \in Requests :
        /\ threads[r] = "finally"
        /\ threads' = [ threads EXCEPT ![r] = "done" ]
        /\ processing_status' = [ processing_status EXCEPT !.is_running = FALSE ]
        /\ UNCHANGED requests
        /\ UNCHANGED << remuxVars, dedupVars, batchVars, convVars, mergeVars >>

\* stop_processing: the flag is lowered, the batch thread is not told
StopProcessing ==
    \E r \in Requests :
        /\ requests[r].at = "arrived"
        /\ requests[r].route = "stop"
        /\ processing_status' =
              [ is_running |-> FALSE,
                log |-> Append(processing_status.log, "Processing stopped by user") ]
        /\ requests' = Respond(r, "Processing stopped")
        /\ UNCHANGED threads
        /\ UNCHANGED << remuxVars, dedupVars, batchVars, convVars, mergeVars >>

InitWeb == WebInit /\ RemuxIdle /\ DedupIdle /\ BatchIdle /\ ConvIdle /\ MergeIdle

NextWeb ==
    \/ Arrive
    \/ CheckRunning
    \/ RejectInput
    \/ RaiseFlag
    \/ RejectUpload
    \/ StartThread
    \/ ThreadBegin
    \/ ThreadWork
    \/ ThreadFinally
    \/ StopProcessing

SpecWeb == InitWeb /\ [][NextWeb]_vars

-----------------------------------------------------------------------------
(* C28: in the web front end at most one batch-processing thread is active at *)
(* any time: while one is running, every /process and /process_dropped_files  *)
(* request is rejected with 'Processing is already running', under every      *)
(* interleaving of concurrent requests, including a /stop request issued      *)
(* while the batch is running.                                                *)

ActiveThreads == { r \in Requests : threads[r] \in {"started", "working", "finally"} }

\* the request goes through the is_running test of its handler in this step
PassesTest(r) ==
    /\ requests[r].at = "arrived"
    /\ requests[r].route \in StartRoutes
    /\ requests'[r].at # "arrived"

C28_AtMostOneBatchThread ==
    [][ /\ Cardinality(ActiveThreads') <= 1
        /\ \A r \in Requests :
              (PassesTest(r) /\ ActiveThreads # {})
                  => requests'[r].response = AlreadyRunning ]_vars


-----------------------------------------------------------------------------
(* C29: when filter_and_remux ends for a file, whether the muxer succeeded or *)
(* failed with a non-zero exit, none of the temporary subtitle files it       *)
(* created for that file during extraction and conversion remain in the       *)
(* output folder.                                                             *)

\* the files created for the run that are not meant to stay: the extracted
\* .temp files and the converted files listed in temp_subtitle_files
TemporaryFiles ==
    Range(psub.temp_files)
    \cup { psub.extracted[i].temp : i \in 1..Len(psub.extracted) }

\* the command was built and handed to the muxer
MuxerRan == \E i \in 1..Len(stages) : stages[i] = "MuxInstructionBuilt"

C29_NoTemporaryFilesLeft ==
    (pc \in {"LoggedAndCleaned", "Failed"} /\ MuxerRan)
        => files \cap TemporaryFiles = {}


-----------------------------------------------------------------------------
(* Specification SpecLimit: break_long_subtitle_lines on every bounded text   *)
(* with every max_line_length from 1 up to a bound.                           *)

MaxLimitTextLen == 6
MaxLimit == 6

LimitInit ==
    /\ cIn \in [text : SeqsUpTo(TextChars, MaxLimitTextLen),
                max_line_length : 1..MaxLimit]
    /\ cOut = << >>
    /\ cpc = "wrap_in"

InitLimit == LimitInit /\ RemuxIdle /\ DedupIdle /\ BatchIdle /\ MergeIdle /\ WebIdle

SpecLimit == InitLimit /\ [][RunWrap]_vars

-----------------------------------------------------------------------------
(* C30: for every input text and every maxLineLength >= 1,                    *)
(* break_long_subtitle_lines terminates and returns a text in which every     *)
(* line has length <= maxLineLength. Termination: every text longer than the  *)
(* limit gets a break point between 1 and the limit, so each iteration of the *)
(* while loop takes at least one character off remaining_text.                *)

LinesOf(text) == IF text = << >> THEN << << >> >> ELSE SplitLines(text)

C30_EveryLineWithinLimit ==
    /\ cpc = "wrap_in" =>
          (Len(cIn.text) > cIn.max_line_length =>
              /\ BestBreak(cIn.text, cIn.max_line_length) >= 1
              /\ BestBreak(cIn.text, cIn.max_line_length) <= cIn.max_line_length)
    /\ cpc = "wrap_out" =>
          \A i \in 1..Len(LinesOf(cOut)) :
              Len(LinesOf(cOut)[i]) <= cIn.max_line_length

\* a one-line text without a space that is cut into three or more lines, the
\* first of them as long as the limit allows
C30_Witness ==
    /\ cpc = "wrap_out"
    /\ \A i \in 1..Len(cIn.text) : cIn.text[i] = "a"
    /\ Len(LinesOf(cOut)) >= 3
    /\ Len(LinesOf(cOut)[1]) = cIn.max_line_length
    /\ cIn.max_line_length >= 2

=============================================================================
